---- MODULE Spec2Model ----
(***************************************************************************)
(* Verification model of the mathhub OCR pipeline (apps/api).              *)
(*                                                                         *)
(* The module holds several state machines that share one variable list:   *)
(*   SpecMap   - map_mathpix_job_status as a function of a status payload  *)
(*   SpecJob   - the stored OCR job and its pages under the HTTP handlers  *)
(*               submit / sync / problem-ocr / ai-preprocess               *)
(*   SpecScan  - scan_pdf_document_with_gemini, sequential and parallel    *)
(*   SpecRetry - the retry loops of _scan_page_with_gemini and             *)
(*               ocr_mathpix_image                                         *)
(*   SpecMerge - merge_mathpix_pages on two lists of pages                 *)
(*   SpecSelect, SpecExtract - _select_asset_hints and one                 *)
(*               extract_and_upload call of ProblemAssetExtractor          *)
(*   SpecMaterialize - the candidate loop of materialize_ocr_job_problems  *)
(*   SpecProblemOcr - one run_problem_level_ocr_pipeline call              *)
(*   SpecHints - collect_problem_asset_hints with a candidate bbox         *)
(*   SpecSequence, SpecSegment - the problem-number sequence filter and    *)
(*               extract_problem_candidates of ai_classifier               *)
(*   SpecClassify - classify_candidate with its API call and heuristic     *)
(*   SpecAttach - attach_answer_keys_to_scanned_pages                      *)
(*   SpecPreprocess - ai-preprocess steps on a job that sync may fill      *)
(*   SpecClassifyStep - classify_ocr_job_step called until it is done      *)
(* Every specification moves only its own variables; the others stay at    *)
(* their idle values.                                                      *)
(***************************************************************************)
EXTENDS Integers, Sequences, FiniteSets, TLC

VARIABLES
    \* ---- SpecMap
    mapPayload,     \* the status payload handed to map_mathpix_job_status
    mapResult,      \* the (status, progress, error_message) it returned
    mapPc,          \* "input" | "mapped"
    \* ---- SpecJob
    job,            \* the ocr_jobs row
    ocr_pages,      \* the ocr_pages rows of the job, keyed by page_no
    submitReq,      \* per request slot: the state of a submit handler
    pocr,           \* "idle" | "running": a problem-ocr run between its commits
    lastOp,         \* what the handler that finished last observed and did
    providerSubmits, \* number of submit calls that reached the OCR provider
    \* ---- SpecScan
    scanIn,             \* arguments: len(doc), max_pages, max_parallel_pages
    scanPc,             \* position of scan_pdf_document_with_gemini
    docOpen,            \* the PDF handle is open
    total_pages,
    max_workers,
    next_page_no,
    future_to_page_no,  \* page numbers submitted and not yet collected
    futureState,        \* per page: "none" | "running" | "ok" | "error"
    doneSet,            \* the `done` set the collection loop iterates
    page_results,       \* collected results, in collection order
    scanResult,         \* the returned page list
    submitCount,        \* per page: how often it was rendered and submitted
    \* ---- SpecRetry
    gemIn,          \* arguments of the page scan: model, page_no
    gemPc,          \* "start" | "requesting" | "returned" | "raised"
    gemCandidates,  \* model_candidates
    gemIdx,         \* index of the model candidate in use
    gemAttempt,     \* attempt of the retry loop, from 1
    gemLastStatus,  \* last_status; 0 is None
    gemAttempted,   \* attempted_models
    gemRequests,    \* per model: requests sent
    gemFailures,    \* per model: requests that failed transiently
    gemLast,        \* the last request: its model and its response
    gemOutcome,     \* what the page scan returned or raised
    mpxPc,          \* ocr_mathpix_image: "requesting" | "returned" | "raised"
    mpxAttempt,
    mpxRequests,
    mpxLast,        \* the response to the last request
    mpxOutcome,
    \* ---- SpecMerge
    mergeStatusPages,   \* arguments status_pages, line_pages of merge_mathpix_pages
    mergeLinePages,
    mergeResult,    \* the list it returned
    mergePc,        \* "input" | "merged"
    \* ---- SpecSelect
    selHints,       \* argument asset_hints of _select_asset_hints
    selSelected,    \* the list it returned
    selUploads,     \* object keys extract_and_upload puts when every render succeeds
    selPc,          \* "input" | "selected"
    \* ---- SpecExtract
    exIn,           \* arguments of extract_and_upload
    exPc,           \* "start" | "loop" | "returned" | "raised"
    exSelected,     \* selected_hints
    exIdx,          \* idx of the hint the loop is at
    exRender,       \* per idx: what its render did ("none": not reached)
    exExtracted,    \* extracted: the storage keys of the returned assets
    s3Objects,      \* object keys put to the bucket
    \* ---- SpecMaterialize
    matPage,        \* page_no of the page the candidate loop is on (0: no run)
    matIndex,       \* index of the next candidate of that page
    matProblems,    \* problems rows written: [key, owner], owner = <<page_no, candidate_index>>
    matUploads,     \* asset objects put: [key, owner]
    \* ---- SpecProblemOcr
    runPc,          \* "start" | "opened" | "loop" | "finish" | "returned" | "raised"
    runDocOpen,     \* the extractor holds an open document
    runJobStatus,   \* ocr_jobs.status as this run writes it
    runPage,        \* page_no of the page the loop is on
    runIndex,       \* index of the next candidate of that page
    runResults,     \* results: [page_no, index, status, reason]
    runError,       \* the step whose error ended the run ("none": no error)
    \* ---- SpecHints
    hintIn,         \* arguments of collect_problem_asset_hints
    hintOut,        \* the list it returned
    hintPc,         \* "input" | "collected"
    \* ---- pure functions of ai_classifier and gemini_document_scanner
    callIn,         \* the arguments of the call
    callOut,        \* what the call returned
    callPc,         \* "input" | "returned"
    \* ---- SpecClassifyStep
    stepPages,      \* the job's ocr_pages rows: page text and stored ai_classification.candidates
    stepMax,        \* max_candidates_per_call of the requests
    stepPc,         \* "idle" | "pages": a call is in its loop over the pages
    stepPage,       \* index of the next page of the loop
    stepTargets,    \* target_candidates of the call
    stepLast,       \* the response of the last classify_ocr_job_step call
    stepUnfinished  \* number of calls that returned done = false

mapVars == <<mapPayload, mapResult, mapPc>>
jobVars == <<job, ocr_pages, submitReq, pocr, lastOp, providerSubmits>>
scanVars == <<scanIn, scanPc, docOpen, total_pages, max_workers, next_page_no,
              future_to_page_no, futureState, doneSet, page_results, scanResult,
              submitCount>>
retryVars == <<gemIn, gemPc, gemCandidates, gemIdx, gemAttempt, gemLastStatus,
               gemAttempted, gemRequests, gemFailures, gemLast, gemOutcome,
               mpxPc, mpxAttempt, mpxRequests, mpxLast, mpxOutcome>>
mergeVars == <<mergeStatusPages, mergeLinePages, mergeResult, mergePc>>
selectVars == <<selHints, selSelected, selUploads, selPc>>
extractVars == <<exIn, exPc, exSelected, exIdx, exRender, exExtracted, s3Objects>>
matVars == <<matPage, matIndex, matProblems, matUploads>>
runVars == <<runPc, runDocOpen, runJobStatus, runPage, runIndex, runResults, runError>>
hintVars == <<hintIn, hintOut, hintPc>>
callVars == <<callIn, callOut, callPc>>
stepVars == <<stepPages, stepMax, stepPc, stepPage, stepTargets, stepLast, stepUnfinished>>
vars == <<mapVars, jobVars, scanVars, retryVars, mergeVars, selectVars, extractVars, matVars, runVars, hintVars, callVars, stepVars>>

\* what each state machine leaves alone
notMapVars == <<jobVars, scanVars, retryVars, mergeVars, selectVars, extractVars, matVars, runVars, hintVars, callVars, stepVars>>
notJobVars == <<mapVars, scanVars, retryVars, mergeVars, selectVars, extractVars, matVars, runVars, hintVars, callVars, stepVars>>
notScanVars == <<mapVars, jobVars, retryVars, mergeVars, selectVars, extractVars, matVars, runVars, hintVars, callVars, stepVars>>
notRetryVars == <<mapVars, jobVars, scanVars, mergeVars, selectVars, extractVars, matVars, runVars, hintVars, callVars, stepVars>>
notMergeVars == <<mapVars, jobVars, scanVars, retryVars, selectVars, extractVars, matVars, runVars, hintVars, callVars, stepVars>>
notSelectVars == <<mapVars, jobVars, scanVars, retryVars, mergeVars, extractVars, matVars, runVars, hintVars, callVars, stepVars>>
notExtractVars == <<mapVars, jobVars, scanVars, retryVars, mergeVars, selectVars, matVars, runVars, hintVars, callVars, stepVars>>
notMatVars == <<mapVars, jobVars, scanVars, retryVars, mergeVars, selectVars, extractVars, runVars, hintVars, callVars, stepVars>>
notRunVars == <<mapVars, jobVars, scanVars, retryVars, mergeVars, selectVars, extractVars, matVars, hintVars, callVars, stepVars>>
notHintVars == <<mapVars, jobVars, scanVars, retryVars, mergeVars, selectVars, extractVars, matVars, runVars, callVars, stepVars>>
notCallVars == <<mapVars, jobVars, scanVars, retryVars, mergeVars, selectVars, extractVars, matVars, runVars, hintVars, stepVars>>
notStepVars == <<mapVars, jobVars, scanVars, retryVars, mergeVars, selectVars, extractVars, matVars, runVars, hintVars, callVars>>

(***************************************************************************)
(* JSON values.  Every value is a record of one shape so that values of    *)
(* different JSON types can be compared and put in one set:                *)
(*   t  the type tag, s  the string (or the dict's "message"), n  the      *)
(*   number (numbers are kept in hundredths: 42 stands for 0.42) or, for a *)
(*   dict, its number of keys.  An absent key and a JSON null both read as *)
(*   None through dict.get, so both are JNull.                             *)
(***************************************************************************)
JNull == [t |-> "null", s |-> "", n |-> 0]
JBool(b) == [t |-> "bool", s |-> "", n |-> IF b THEN 1 ELSE 0]
JStr(str) == [t |-> "str", s |-> str, n |-> 0]
JNum(h) == [t |-> "num", s |-> "", n |-> h]
JDict(message, keys) == [t |-> "dict", s |-> message, n |-> keys]
\* a list of line objects: s is the text its lines join to, n its length
JLines(joined, len) == [t |-> "list", s |-> joined, n |-> len]

\* Python truthiness of a JSON value.
Truthy(v) ==
    CASE v.t = "null" -> FALSE
      [] v.t = "bool" -> v.n = 1
      [] v.t = "str"  -> v.s # ""
      [] v.t = "num"  -> v.n # 0
      [] v.t = "dict" -> v.n > 0
      [] v.t = "list" -> v.n > 0

\* Python's `a or b`: the first operand when it is truthy, else the second.
PyOr(a, b) == IF Truthy(a) THEN a ELSE b

\* str(value) for the values of the bounded universe.
PyStr(v) ==
    CASE v.t = "str"  -> v.s
      [] v.t = "bool" -> IF v.n = 1 THEN "True" ELSE "False"
      [] v.t = "null" -> "None"
      [] v.t = "num"  -> "<number>"
      [] v.t = "dict" -> "<dict>"
      [] v.t = "list" -> "<list>"

\* str.strip().lower() on the strings of the bounded universe; every other
\* string of the universe is already lower-case and unpadded.
StripLower(str) ==
    CASE str = " Completed " -> "completed"
      [] str = "DONE"        -> "done"
      [] str = "Failed"      -> "failed"
      [] str = "True"        -> "true"
      [] str = "False"       -> "false"
      [] str = "None"        -> "none"
      [] str = "  "          -> ""
      [] OTHER               -> str

\* Decimal(str(value)) in hundredths; -1 stands for "raises".
DecimalOf(v) ==
    CASE v.t = "num" -> v.n
      [] v.t = "str" /\ v.s = "0.5" -> 50
      [] v.t = "str" /\ v.s = "42"  -> 4200
      [] OTHER -> -1

COMPLETED_WORDS == {"completed", "complete", "done", "success", "succeeded"}
FAILED_WORDS == {"failed", "failure", "error", "cancelled", "canceled"}
QUEUE_WORDS == {"queued", "uploaded", "uploading"}

NoError == "<null>"

RawStatus(payload) ==
    StripLower(PyStr(PyOr(PyOr(payload.status, payload.state), JStr(""))))

ErrorMessage(payload) ==
    IF payload.error.t = "dict"
    THEN (IF payload.error.s # "" THEN payload.error.s ELSE "<json.dumps(error)>")
    ELSE IF Truthy(payload.error) THEN PyStr(payload.error)
    ELSE NoError

Progress(payload) ==
    LET value == PyOr(PyOr(PyOr(PyOr(payload.percent_done, payload.progress_pct),
                                payload.progress), payload.percent), JNum(0))
        parsed == DecimalOf(value)
        progress == IF value.t = "num" \/ parsed # -1 THEN parsed ELSE 0
        scaled == IF progress <= 100 THEN progress * 100 ELSE progress
    IN  IF scaled < 0 THEN 0 ELSE IF scaled > 10000 THEN 10000 ELSE scaled

CompletedFlag(payload) == Truthy(payload.completed)

map_mathpix_job_status(payload) ==
    LET raw_status == RawStatus(payload)
        error_message == ErrorMessage(payload)
        completed == CompletedFlag(payload) \/ raw_status \in COMPLETED_WORDS
        failed == error_message # NoError \/ raw_status \in FAILED_WORDS
    IN  IF completed THEN <<"completed", 10000, NoError>>
        ELSE IF failed
             THEN <<"failed", Progress(payload),
                    IF error_message # NoError THEN error_message
                    ELSE "Mathpix returned failure status">>
        ELSE IF raw_status \in QUEUE_WORDS THEN <<"uploading", Progress(payload), NoError>>
        ELSE <<"processing", Progress(payload), NoError>>

(***************************************************************************)
(* SpecMap: map_mathpix_job_status applied to one payload of the universe. *)
(***************************************************************************)
CompletedValues == {JNull, JBool(TRUE), JBool(FALSE), JStr("false"), JStr(""),
                    JNum(0), JNum(100)}
StatusValues == {JNull, JStr("completed"), JStr(" Completed "), JStr("DONE"),
                 JStr("failed"), JStr("Failed"), JStr("queued"), JStr("processing"),
                 JStr("split"), JBool(TRUE)}
StateValues == {JNull, JStr("done"), JStr("error")}
ErrorValues == {JNull, JStr(""), JStr("x"), JDict("boom", 1), JDict("", 1), JDict("", 0)}
PercentDoneValues == {JNull, JNum(42), JNum(4200), JNum(15000), JNum(-500),
                      JStr("0.5"), JStr("abc"), JBool(TRUE)}

MapPayloads ==
    [completed : CompletedValues, status : StatusValues, state : StateValues,
     error : ErrorValues, percent_done : PercentDoneValues,
     progress_pct : {JNull, JNum(7000)}, progress : {JNull, JNum(30)},
     percent : {JNull, JNum(9000)}]

NoResult == <<"", 0, NoError>>

MapInit ==
    /\ mapPayload \in MapPayloads
    /\ mapResult = NoResult
    /\ mapPc = "input"

MapIdle ==
    /\ mapPayload = [completed |-> JNull, status |-> JNull, state |-> JNull,
                     error |-> JNull, percent_done |-> JNull, progress_pct |-> JNull,
                     progress |-> JNull, percent |-> JNull]
    /\ mapResult = NoResult
    /\ mapPc = "input"

MapStatus ==
    /\ mapPc = "input"
    /\ mapResult' = map_mathpix_job_status(mapPayload)
    /\ mapPc' = "mapped"
    /\ UNCHANGED mapPayload
    /\ UNCHANGED notMapVars

(***************************************************************************)
(* Pages.  A JSON object is a function from its keys to JSON values; a     *)
(* page is [page_no, extracted_text, extracted_latex, raw_payload].        *)
(***************************************************************************)
Null == "<null>"

Get(d, k) == IF k \in DOMAIN d THEN d[k] ELSE JNull

\* str.strip() on the texts of the bounded universe.
Strip(str) ==
    CASE str = " T1 " -> "T1"
      [] str = "  "   -> ""
      [] OTHER        -> str

\* int(value): <<TRUE, n>>, or <<FALSE, 0>> when it raises.
IntOf(v) ==
    CASE v.t = "num"  -> <<TRUE, v.n \div 100>>
      [] v.t = "bool" -> <<TRUE, v.n>>
      [] v.t = "str" /\ v.s = "2" -> <<TRUE, 2>>
      [] OTHER -> <<FALSE, 0>>

RECURSIVE _first_non_empty_str(_, _)
_first_non_empty_str(source, keys) ==
    IF keys = <<>> THEN Null
    ELSE LET value == Get(source, Head(keys))
         IN  IF value.t = "str" /\ Strip(value.s) # ""
             THEN Strip(value.s)
             ELSE _first_non_empty_str(source, Tail(keys))

IsDictItem(item) == "__not_a_dict__" \notin DOMAIN item

ItemPageNo(item, index) ==
    LET page_no_raw == PyOr(PyOr(PyOr(Get(item, "page"), Get(item, "page_no")),
                                 Get(item, "number")), JNum(index * 100))
        parsed == IntOf(page_no_raw)
    IN  IF parsed[1] THEN parsed[2] ELSE index

RECURSIVE StatusPagesFrom(_, _)
StatusPagesFrom(items, index) ==
    IF index > Len(items) THEN <<>>
    ELSE LET item == items[index]
         IN  IF ~IsDictItem(item) THEN StatusPagesFrom(items, index + 1)
             ELSE <<[page_no |-> ItemPageNo(item, index),
                     extracted_text |-> _first_non_empty_str(item,
                         <<"text", "markdown", "md", "content", "html", "latex_styled", "latex">>),
                     extracted_latex |-> _first_non_empty_str(item, <<"latex_styled", "latex">>),
                     raw_payload |-> item]>>
                  \o StatusPagesFrom(items, index + 1)

\* payload.pages is [is_list, items]; line_data a JLines value or JNull;
\* text a JSON value.
extract_mathpix_pages(payload) ==
    IF payload.pages.is_list THEN StatusPagesFrom(payload.pages.items, 1)
    ELSE IF payload.line_data.t = "list"
    THEN <<[page_no |-> 1,
            extracted_text |-> IF Strip(payload.line_data.s) # ""
                               THEN Strip(payload.line_data.s) ELSE Null,
            extracted_latex |-> Null,
            raw_payload |-> ("line_data" :> payload.line_data)]>>
    ELSE IF payload.text.t = "str" /\ Strip(payload.text.s) # ""
    THEN <<[page_no |-> 1, extracted_text |-> Strip(payload.text.s),
            extracted_latex |-> Null, raw_payload |-> ("text" :> payload.text)]>>
    ELSE <<>>

RECURSIVE LinePagesFrom(_, _)
LinePagesFrom(items, index) ==
    IF index > Len(items) THEN <<>>
    ELSE LET item == items[index]
             lines == Get(item, "lines")
             joined == IF lines.t = "list" THEN Strip(lines.s) ELSE ""
         IN  IF ~IsDictItem(item) THEN LinePagesFrom(items, index + 1)
             ELSE <<[page_no |-> ItemPageNo(item, index),
                     extracted_text |-> IF joined # "" THEN joined ELSE Null,
                     extracted_latex |-> _first_non_empty_str(item, <<"latex_styled", "latex">>),
                     raw_payload |-> item]>>
                  \o LinePagesFrom(items, index + 1)

extract_mathpix_pages_from_lines(payload) ==
    IF ~payload.pages.is_list THEN <<>> ELSE LinePagesFrom(payload.pages.items, 1)

_to_page_no(value, fallback) == IF value <= 0 THEN fallback ELSE value

\* Python's `a or b` on str | None.
TextOr(a, b) == IF a # Null /\ a # "" THEN a ELSE b

\* the raw merge with dict.update in place of setdefault: status values win
MergedRaw_StatusWins(line_raw, status_raw) ==
    IF IsDictItem(line_raw) /\ IsDictItem(status_raw)
    THEN [k \in DOMAIN line_raw \cup DOMAIN status_raw \cup {"_mathpix_status_page"} |->
             IF k = "_mathpix_status_page" THEN status_raw
             ELSE IF k \in DOMAIN status_raw THEN status_raw[k]
             ELSE line_raw[k]]
    ELSE IF IsDictItem(line_raw) THEN line_raw
    ELSE status_raw

\* dict(line_raw), setdefault of every status key, then the audit key; a
\* raw payload that is no dict is None here.
MergedRaw(line_raw, status_raw) ==
    IF IsDictItem(line_raw) /\ IsDictItem(status_raw)
    THEN [k \in DOMAIN line_raw \cup DOMAIN status_raw \cup {"_mathpix_status_page"} |->
             IF k = "_mathpix_status_page" THEN status_raw
             ELSE IF k \in DOMAIN line_raw THEN line_raw[k]
             ELSE status_raw[k]]
    ELSE IF IsDictItem(line_raw) THEN line_raw
    ELSE status_raw

RECURSIVE MergeStatusPages(_, _, _)
MergeStatusPages(status_pages, index, merged) ==
    IF index > Len(status_pages) THEN merged
    ELSE LET page == status_pages[index]
             page_no == _to_page_no(page.page_no, index)
             entry == [page EXCEPT !.page_no = page_no]
         IN  MergeStatusPages(status_pages, index + 1,
                 [n \in DOMAIN merged \cup {page_no} |->
                     IF n = page_no THEN entry ELSE merged[n]])

\* the merge of one line page with the text operands swapped
MergeLinePage_StatusTextFirst(existing, page) ==
    [page_no |-> existing.page_no,
     extracted_text |-> TextOr(existing.extracted_text, page.extracted_text),
     extracted_latex |-> TextOr(existing.extracted_latex, page.extracted_latex),
     raw_payload |-> MergedRaw(page.raw_payload, existing.raw_payload)]

MergeLinePage(existing, page) ==
    [page_no |-> existing.page_no,
     extracted_text |-> TextOr(page.extracted_text, existing.extracted_text),
     extracted_latex |-> TextOr(existing.extracted_latex, page.extracted_latex),
     raw_payload |-> MergedRaw(page.raw_payload, existing.raw_payload)]

RECURSIVE MergeLinePages(_, _, _)
MergeLinePages(line_pages, index, merged) ==
    IF index > Len(line_pages) THEN merged
    ELSE LET page == line_pages[index]
             page_no == _to_page_no(page.page_no, index)
             entry == IF page_no \notin DOMAIN merged
                      THEN [page EXCEPT !.page_no = page_no]
                      ELSE MergeLinePage(merged[page_no], page)
         IN  MergeLinePages(line_pages, index + 1,
                 [n \in DOMAIN merged \cup {page_no} |->
                     IF n = page_no THEN entry ELSE merged[n]])

RECURSIVE SortedValues(_)
SortedValues(byNo) ==
    IF DOMAIN byNo = {} THEN <<>>
    ELSE LET least == CHOOSE n \in DOMAIN byNo : \A m \in DOMAIN byNo : n <= m
         IN  <<byNo[least]>> \o SortedValues([n \in DOMAIN byNo \ {least} |-> byNo[n]])

EmptyMap == [n \in {} |-> 0]

merge_mathpix_pages(status_pages, line_pages) ==
    SortedValues(MergeLinePages(line_pages, 1, MergeStatusPages(status_pages, 1, EmptyMap)))

\* INSERT ... ON CONFLICT (job_id, page_no) DO UPDATE of the sync handler,
\* one statement per page of the list.
UpsertSyncPage(rows, page, mapped_status) ==
    LET row == IF page.page_no \in DOMAIN rows
               THEN [status |-> mapped_status,
                     extracted_text |-> IF page.extracted_text # Null
                                        THEN page.extracted_text
                                        ELSE rows[page.page_no].extracted_text,
                     extracted_latex |-> IF page.extracted_latex # Null
                                         THEN page.extracted_latex
                                         ELSE rows[page.page_no].extracted_latex,
                     raw_payload |-> page.raw_payload @@ rows[page.page_no].raw_payload]
               ELSE [status |-> mapped_status,
                     extracted_text |-> page.extracted_text,
                     extracted_latex |-> page.extracted_latex,
                     raw_payload |-> page.raw_payload]
    IN  [n \in DOMAIN rows \cup {page.page_no} |-> IF n = page.page_no THEN row ELSE rows[n]]

RECURSIVE UpsertSyncPages(_, _, _)
UpsertSyncPages(rows, pages, mapped_status) ==
    IF pages = <<>> THEN rows
    ELSE UpsertSyncPages(UpsertSyncPage(rows, Head(pages), mapped_status),
                         Tail(pages), mapped_status)

(***************************************************************************)
(* SpecMerge: merge_mathpix_pages applied to two page lists.  All status   *)
(* pages of one call carry one raw payload and all line pages another.     *)
(***************************************************************************)
MaxMergePages == 1        \* pages per list

NoRaw == ("__not_a_dict__" :> JNull)
StatusRaws ==
    { ("page" :> JNum(100) @@ "image_id" :> JStr("s1") @@ "confidence" :> JNum(90)),
      ("image_id" :> JStr("s1") @@ "_mathpix_status_page" :> JStr("older")),
      NoRaw }
LineRaws ==
    { ("page" :> JNum(100) @@ "image_id" :> JStr("l1") @@ "lines" :> JLines("L", 1)),
      ("image_id" :> JStr("l1") @@ "_mathpix_status_page" :> JStr("mine")),
      NoRaw }

MergePageNos == {1, 2}
StatusPageSet(raw) ==
    [page_no : MergePageNos, extracted_text : {Null, "S"},
     extracted_latex : {Null, "", "SX"}, raw_payload : {raw}]
LinePageSet(raw) ==
    [page_no : MergePageNos, extracted_text : {Null, "", "L"},
     extracted_latex : {Null, "LX"}, raw_payload : {raw}]

SeqsUpTo(S, n) == UNION {[1..k -> S] : k \in 0..n}

MergeInit ==
    /\ \E raw \in StatusRaws : mergeStatusPages \in SeqsUpTo(StatusPageSet(raw), MaxMergePages)
    /\ \E raw \in LineRaws : mergeLinePages \in SeqsUpTo(LinePageSet(raw), MaxMergePages)
    /\ mergeResult = <<>>
    /\ mergePc = "input"

MergeIdle ==
    /\ mergeStatusPages = <<>>
    /\ mergeLinePages = <<>>
    /\ mergeResult = <<>>
    /\ mergePc = "input"

MergePages ==
    /\ mergePc = "input"
    /\ mergeResult' = merge_mathpix_pages(mergeStatusPages, mergeLinePages)
    /\ mergePc' = "merged"
    /\ UNCHANGED <<mergeStatusPages, mergeLinePages>>
    /\ UNCHANGED notMergeVars

(***************************************************************************)
(* Asset hints and ProblemAssetExtractor.  A hint is                       *)
(* [asset_type, source, bbox, evidence]; a bbox is [is_dict, x1, y1, x2,   *)
(* y2] in whole units.  Object keys are built as strings, formatted as     *)
(* the f-string formats them.                                              *)
(***************************************************************************)
Min(a, b) == IF a <= b THEN a ELSE b
Max(a, b) == IF a >= b THEN a ELSE b

ALLOWED_ASSET_TYPES == {"image", "table", "graph", "other"}
MAX_SELECTED_HINTS == 6
MAX_HINTS_PER_TYPE == 2

NoBBox == [is_dict |-> FALSE, x1 |-> 0, y1 |-> 0, x2 |-> 0, y2 |-> 0]
BBox(x1, y1, x2, y2) == [is_dict |-> TRUE, x1 |-> x1, y1 |-> y1, x2 |-> x2, y2 |-> y2]

NotAHint == [asset_type |-> "<not a dict>", source |-> "", bbox |-> NoBBox, evidence |-> ""]
IsDictHint(hint) == hint.asset_type # "<not a dict>"

\* str(hint.get("asset_type") or "other").strip().lower(), then the
\* allow-list; "" stands for a missing asset_type
NormalizeAssetType(raw) ==
    LET lowered == CASE raw = " Graph " -> "graph"
                     [] raw = ""        -> "other"
                     [] OTHER           -> raw
    IN  IF lowered \in ALLOWED_ASSET_TYPES THEN lowered ELSE "other"

SourcePriority(source) ==
    LET lowered == IF source = "Raw_Payload_Node " THEN "raw_payload_node" ELSE source
    IN  CASE lowered = "raw_payload_node"             -> 4
          [] lowered = "statement_text_bbox_fallback" -> 3
          [] lowered = "statement_text"               -> 2
          [] lowered = "raw_payload_text"             -> 1
          [] OTHER                                    -> 0

_hint_rank_key(hint) ==
    IF ~hint.bbox.is_dict THEN <<0, SourcePriority(hint.source), 0>>
    ELSE <<1, SourcePriority(hint.source),
           Max(0, hint.bbox.x2 - hint.bbox.x1) * Max(0, hint.bbox.y2 - hint.bbox.y1)>>

\* tuple comparison
KeyGreater(a, b) ==
    \/ a[1] > b[1]
    \/ a[1] = b[1] /\ a[2] > b[2]
    \/ a[1] = b[1] /\ a[2] = b[2] /\ a[3] > b[3]

\* the place of a hint among the hints ranked before it: behind every hint
\* whose key is not smaller (descending and stable)
RankPosition(sorted, hint) ==
    Cardinality({i \in 1..Len(sorted) :
                    ~KeyGreater(_hint_rank_key(hint), _hint_rank_key(sorted[i]))})

\* sorted(normalized_hints, key=_hint_rank_key, reverse=True)
RECURSIVE RankedFrom(_, _, _)
RankedFrom(hints, i, sorted) ==
    IF i > Len(hints) THEN sorted
    ELSE LET at == RankPosition(sorted, hints[i])
         IN  RankedFrom(hints, i + 1,
                 SubSeq(sorted, 1, at) \o <<hints[i]>> \o SubSeq(sorted, at + 1, Len(sorted)))

RankedHints(hints) == RankedFrom(hints, 1, <<>>)

RECURSIVE NormalizedHints(_)
NormalizedHints(asset_hints) ==
    IF asset_hints = <<>> THEN <<>>
    ELSE LET hint == Head(asset_hints)
         IN  IF ~IsDictHint(hint) THEN NormalizedHints(Tail(asset_hints))
             ELSE <<[hint EXCEPT !.asset_type = NormalizeAssetType(hint.asset_type)]>>
                  \o NormalizedHints(Tail(asset_hints))

CountOfType(hints, asset_type) ==
    Cardinality({i \in 1..Len(hints) : hints[i].asset_type = asset_type})

\* the per-type test with an off-by-one comparison
TypeIsFull_OffByOne(selected, asset_type) ==
    CountOfType(selected, asset_type) > MAX_HINTS_PER_TYPE

\* `per_type_count[asset_type] >= 2`
TypeIsFull(selected, asset_type) ==
    CountOfType(selected, asset_type) >= MAX_HINTS_PER_TYPE

RECURSIVE SelectFrom(_, _, _)
SelectFrom(ranked_hints, i, selected) ==
    IF i > Len(ranked_hints) THEN selected
    ELSE LET hint == ranked_hints[i]
         IN  IF TypeIsFull(selected, NormalizeAssetType(hint.asset_type))
             THEN SelectFrom(ranked_hints, i + 1, selected)
             ELSE IF Len(selected) + 1 >= MAX_SELECTED_HINTS
                  THEN Append(selected, hint)
                  ELSE SelectFrom(ranked_hints, i + 1, Append(selected, hint))

_select_asset_hints(asset_hints) ==
    SelectFrom(RankedHints(NormalizedHints(asset_hints)), 1, <<>>)

\* f"{n:0{width}d}" for n >= 0
RECURSIVE ZeroPad(_, _)
ZeroPad(text, width) == IF Len(text) >= width THEN text ELSE ZeroPad("0" \o text, width)

JOB_ID == "job-1"
BUCKET == "bucket"

\* f"{self.prefix}/{self.job_id}/page-{page_no:04d}/candidate-{candidate_no:03d}"
ObjectDir(page_no, candidate_no) ==
    "s3://" \o BUCKET \o "/" \o "ocr-assets" \o "/" \o JOB_ID
    \o "/page-" \o ZeroPad(ToString(page_no), 4)
    \o "/candidate-" \o ZeroPad(ToString(candidate_no), 3)

\* f"/{idx:02d}-{asset_type}.png"
ObjectFile(idx, asset_type) ==
    "/" \o ZeroPad(ToString(idx), 2) \o "-" \o asset_type \o ".png"

\* the object key of the idx-th selected hint, as build_storage_key wraps it
ObjectKey(page_no, candidate_no, idx, asset_type) ==
    ObjectDir(page_no, candidate_no) \o ObjectFile(idx, asset_type)

(***************************************************************************)
(* SpecSelect: _select_asset_hints applied to one list of hints, and the   *)
(* objects extract_and_upload puts for it when every render succeeds.      *)
(***************************************************************************)
MaxExtraHints == 4

GraphBig == [asset_type |-> "graph", source |-> "raw_payload_node",
             bbox |-> BBox(0, 0, 4, 4), evidence |-> "g1"]
GraphSmall == [asset_type |-> " Graph ", source |-> "Raw_Payload_Node ",
               bbox |-> BBox(1, 1, 2, 2), evidence |-> "g2"]
TableNoBBox == [asset_type |-> "table", source |-> "statement_text",
                bbox |-> NoBBox, evidence |-> "t"]
ImageHint == [asset_type |-> "image", source |-> "raw_payload_text",
              bbox |-> BBox(0, 0, 2, 2), evidence |-> "i"]
ChartHint == [asset_type |-> "chart", source |-> "", bbox |-> NoBBox, evidence |-> "c"]

SelectHints == {GraphBig, GraphSmall, TableNoBBox, ImageHint, ChartHint, NotAHint}

\* the keys put for a selected list when every hint renders
UploadsOf(page_no, candidate_no, selected) ==
    LET object_dir == ObjectDir(page_no, candidate_no)
    IN  [idx \in 1..Len(selected) |->
            LET asset_type == NormalizeAssetType(selected[idx].asset_type)
            IN  [asset_type |-> asset_type,
                 storage_key |-> object_dir \o ObjectFile(idx, asset_type)]]

\* one hint of every type, lowest ranked first
OneOfEachType == <<ChartHint, ImageHint, TableNoBBox, GraphSmall>>

\* the lists of hints a call is given: up to MaxExtraHints hints in any
\* order, alone or behind one hint of every type
SelectInputs ==
    {prefix \o extra : prefix \in {<<>>, OneOfEachType},
                       extra \in SeqsUpTo(SelectHints, MaxExtraHints)}

SelectInit ==
    /\ selHints \in SelectInputs
    /\ selSelected = <<>>
    /\ selUploads = <<>>
    /\ selPc = "input"

SelectIdle ==
    /\ selHints = <<>>
    /\ selSelected = <<>>
    /\ selUploads = <<>>
    /\ selPc = "input"

\* one call of extract_and_upload with asset_hints, every render succeeding
SelectAndUpload ==
    /\ selPc = "input"
    /\ selSelected' = _select_asset_hints(selHints)
    /\ selUploads' = UploadsOf(1, 1, selSelected')
    /\ selPc' = "selected"
    /\ UNCHANGED selHints
    /\ UNCHANGED notSelectVars

(***************************************************************************)
(* SpecExtract: one extract_and_upload call on a two-page document, one    *)
(* action per hint of the loop.                                            *)
(***************************************************************************)
MaxExtractHints == 2
DocPages == 2

ExtractHints == {GraphBig, TableNoBBox, ChartHint, NotAHint}
RenderOutcomes == {"ok", "no_clip", "zero_bytes", "error"}
NoRenders == [idx \in 1..MAX_SELECTED_HINTS |-> "none"]

ExtractInit ==
    /\ exIn \in [page_no : 0..(DocPages + 1), candidate_no : {3},
                 asset_hints : SeqsUpTo(ExtractHints, MaxExtractHints),
                 has_candidate_bbox : BOOLEAN]
    /\ exPc = "start"
    /\ exSelected = <<>>
    /\ exIdx = 1
    /\ exRender = NoRenders
    /\ exExtracted = <<>>
    /\ s3Objects = {}

ExtractIdle ==
    /\ exIn = [page_no |-> 0, candidate_no |-> 3, asset_hints |-> <<>>,
               has_candidate_bbox |-> FALSE]
    /\ exPc = "start"
    /\ exSelected = <<>>
    /\ exIdx = 1
    /\ exRender = NoRenders
    /\ exExtracted = <<>>
    /\ s3Objects = {}

\* the guards and the selection
ExtractStart ==
    /\ exPc = "start"
    /\ LET selected_hints == _select_asset_hints(exIn.asset_hints)
       IN  IF exIn.page_no <= 0 \/ exIn.page_no - 1 >= DocPages \/ selected_hints = <<>>
           THEN exPc' = "returned" /\ UNCHANGED exSelected
           ELSE exPc' = "loop" /\ exSelected' = selected_hints
    /\ UNCHANGED <<exIn, exIdx, exRender, exExtracted, s3Objects>>
    /\ UNCHANGED notExtractVars

\* after one hint: the next hint or the return
ExtractAdvance ==
    /\ exIdx' = exIdx + 1
    /\ exPc' = IF exIdx >= Len(exSelected) THEN "returned" ELSE "loop"

\* one pass of the loop body
ExtractHint(outcome) ==
    LET hint == exSelected[exIdx]
        asset_type == NormalizeAssetType(hint.asset_type)
        has_bbox == hint.bbox.is_dict \/ exIn.has_candidate_bbox
        object_key == ObjectKey(exIn.page_no, exIn.candidate_no, exIdx, asset_type)
    IN
    /\ exPc = "loop"
    /\ IF ~has_bbox
       THEN /\ outcome = "no_clip"
            /\ exRender' = [exRender EXCEPT ![exIdx] = "no_bbox"]
            /\ ExtractAdvance
            /\ UNCHANGED <<exExtracted, s3Objects>>
       ELSE /\ exRender' = [exRender EXCEPT ![exIdx] = outcome]
            /\ CASE outcome = "ok" ->
                      /\ s3Objects' = s3Objects \cup {object_key}
                      /\ exExtracted' = Append(exExtracted, object_key)
                      /\ ExtractAdvance
                 [] outcome \in {"no_clip", "zero_bytes"} ->
                      /\ ExtractAdvance
                      /\ UNCHANGED <<exExtracted, s3Objects>>
                 [] outcome = "error" ->
                      /\ exPc' = "raised"
                      /\ UNCHANGED <<exIdx, exExtracted, s3Objects>>
    /\ UNCHANGED <<exIn, exSelected>>
    /\ UNCHANGED notExtractVars

ExtractHintStep == \E outcome \in RenderOutcomes : ExtractHint(outcome)

(***************************************************************************)
(* SpecMaterialize: the candidate loop of materialize_ocr_job_problems.    *)
(* Each candidate of each page is either skipped or stored: its problems   *)
(* row is upserted under the external problem key and its asset crops are  *)
(* put by extract_and_upload.  Every write is kept with the candidate      *)
(* (page_no, candidate_index) that made it.                                *)
(***************************************************************************)
MaxMatPages == 2
MaxCandidates == 2

\* f"OCR:{job_id}:P{page_no}:I{candidate_index}"
_build_external_problem_key(job_id, page_no, candidate_index) ==
    "OCR:" \o job_id \o ":P" \o ToString(page_no) \o ":I" \o ToString(candidate_index)

\* candidate.get("candidate_no") of the stored payload: absent, or a number
\* the classifier gave (numbers may repeat on a page)
NoCandidateNo == 0
CandidateNoRaws == {NoCandidateNo, 1}

\* int(candidate_no_raw), index + 1 when that raises
CandidateNo(candidate_no_raw, index) ==
    IF candidate_no_raw = NoCandidateNo THEN index + 1 ELSE candidate_no_raw

MatHints == <<GraphBig, TableNoBBox>>
MatOutcomes == {"stored", "stored_without_assets", "skipped"}

MatInit ==
    /\ matPage = 1
    /\ matIndex = 0
    /\ matProblems = {}
    /\ matUploads = {}

MatIdle ==
    /\ matPage = 0
    /\ matIndex = 0
    /\ matProblems = {}
    /\ matUploads = {}

\* one pass of `for index, candidate in enumerate(source_candidates)`
MaterializeCandidate(candidate_no_raw, outcome) ==
    LET index == matIndex
        page_no == matPage
        candidate_no == CandidateNo(candidate_no_raw, index)
        candidate_index == index + 1
        owner == <<page_no, candidate_index>>
        external_problem_key == _build_external_problem_key(JOB_ID, page_no, candidate_index)
        extracted_assets ==
            IF outcome = "stored"
            THEN UploadsOf(page_no, candidate_no, _select_asset_hints(MatHints))
            ELSE <<>>
    IN
    /\ matPage >= 1
    /\ matIndex < MaxCandidates
    /\ matIndex' = matIndex + 1
    /\ IF outcome = "skipped"
       THEN UNCHANGED <<matProblems, matUploads>>
       ELSE /\ matProblems' = matProblems \cup {[key |-> external_problem_key, owner |-> owner]}
            /\ matUploads' = matUploads \cup
                   {[key |-> extracted_assets[i].storage_key, owner |-> owner] :
                        i \in 1..Len(extracted_assets)}
    /\ UNCHANGED matPage
    /\ UNCHANGED notMatVars

MaterializeCandidateStep ==
    \E candidate_no_raw \in CandidateNoRaws, outcome \in MatOutcomes :
        MaterializeCandidate(candidate_no_raw, outcome)

\* the page loop moves to the next page
MaterializeNextPage ==
    /\ matPage >= 1
    /\ matPage < MaxMatPages
    /\ matPage' = matPage + 1
    /\ matIndex' = 0
    /\ UNCHANGED <<matProblems, matUploads>>
    /\ UNCHANGED notMatVars

(***************************************************************************)
(* SpecProblemOcr: one run_problem_level_ocr_pipeline call, from the       *)
(* construction of the extractor to the return or the raise.  Every page   *)
(* carries RunCandidates candidates; each pass of the candidate loop draws *)
(* what the candidate's steps do.                                          *)
(***************************************************************************)
RunPages == 2
RunCandidates == 2

\* what one candidate's steps do: the problem is stored; render_clip_png
\* returns no bytes; render_clip_png raises; ocr_mathpix_image raises;
\* put_object_bytes of the crop raises
CandidateOutcomes == {"stored", "render_none", "render_error", "ocr_error", "upload_error"}

RunInit ==
    /\ runPc = "start"
    /\ runDocOpen = FALSE
    /\ runJobStatus = "uploaded"
    /\ runPage = 1
    /\ runIndex = 1
    /\ runResults = <<>>
    /\ runError = "none"

RunIdle ==
    /\ runPc = "idle"
    /\ runDocOpen = FALSE
    /\ runJobStatus = "uploaded"
    /\ runPage = 1
    /\ runIndex = 1
    /\ runResults = <<>>
    /\ runError = "none"

\* extractor = ProblemAssetExtractor(...); 500 when PyMuPDF is missing
RunOpen(available) ==
    /\ runPc = "start"
    /\ IF available
       THEN runDocOpen' = TRUE /\ runPc' = "opened" /\ UNCHANGED runError
       ELSE runDocOpen' = FALSE /\ runPc' = "raised" /\ runError' = "unavailable"
    /\ UNCHANGED <<runJobStatus, runPage, runIndex, runResults>>
    /\ UNCHANGED notRunVars

\* UPDATE ocr_jobs SET status = 'processing' and conn.commit(), ahead of
\* the try statement
RunMarkProcessing(db_ok) ==
    /\ runPc = "opened"
    /\ IF db_ok
       THEN runJobStatus' = "processing" /\ runPc' = "loop" /\ UNCHANGED runError
       ELSE runPc' = "raised" /\ runError' = "mark_processing" /\ UNCHANGED runJobStatus
    /\ UNCHANGED <<runDocOpen, runPage, runIndex, runResults>>
    /\ UNCHANGED notRunVars

\* except Exception: rollback, UPDATE status = 'failed', raise;
\* finally: extractor.close()
RunFails(step) ==
    /\ runJobStatus' = "failed"
    /\ runError' = step
    /\ runDocOpen' = FALSE
    /\ runPc' = "raised"

RunResult(status, reason) ==
    [page_no |-> runPage, index |-> runIndex, status |-> status, reason |-> reason]

\* one pass of `for index, candidate in enumerate(problems, start=1)`,
\* moving to the next page behind the last candidate
RunCandidate(outcome) ==
    /\ runPc = "loop"
    /\ CASE outcome = "render_error" ->
              RunFails("render") /\ UNCHANGED <<runPage, runIndex, runResults>>
         [] outcome = "upload_error" ->
              RunFails("upload") /\ UNCHANGED <<runPage, runIndex, runResults>>
         [] OTHER ->
              /\ runResults' = Append(runResults,
                     CASE outcome = "render_none" ->
                              RunResult("skipped", "failed to render problem clip")
                       [] outcome = "ocr_error" ->
                              RunResult("skipped", "Mathpix text OCR failed")
                       [] OTHER -> RunResult("inserted", ""))
              /\ IF runIndex < RunCandidates
                 THEN runIndex' = runIndex + 1 /\ UNCHANGED <<runPage, runPc>>
                 ELSE /\ runIndex' = 1
                      /\ runPage' = runPage + 1
                      /\ runPc' = IF runPage < RunPages THEN "loop" ELSE "finish"
              /\ UNCHANGED <<runDocOpen, runJobStatus, runError>>
    /\ UNCHANGED notRunVars

RunCandidateStep == \E outcome \in CandidateOutcomes : RunCandidate(outcome)

\* UPDATE ocr_jobs SET status = 'completed', conn.commit(), inside the try
RunFinish(db_ok) ==
    /\ runPc = "finish"
    /\ IF db_ok
       THEN /\ runJobStatus' = "completed"
            /\ runDocOpen' = FALSE
            /\ runPc' = "returned"
            /\ UNCHANGED runError
       ELSE RunFails("complete")
    /\ UNCHANGED <<runPage, runIndex, runResults>>
    /\ UNCHANGED notRunVars

RunOpenStep == \E available \in BOOLEAN : RunOpen(available)
RunMarkProcessingStep == \E db_ok \in BOOLEAN : RunMarkProcessing(db_ok)
RunFinishStep == \E db_ok \in BOOLEAN : RunFinish(db_ok)

(***************************************************************************)
(* SpecHints: collect_problem_asset_hints on a square page of PageUnits    *)
(* by PageUnits units.  A bbox is [enc, a, b, c, d]: enc names the keys    *)
(* the dict carries and a..d are their values in key order.  The values    *)
(* of a ratio bbox are fractions of the page, written as numerators over   *)
(* PageUnits.                                                              *)
(***************************************************************************)
PageUnits == 4
MaxNodes == 2

NoneBBox == [enc |-> "none", a |-> 0, b |-> 0, c |-> 0, d |-> 0]
DictBBox(enc, a, b, c, d) == [enc |-> enc, a |-> a, b |-> b, c |-> c, d |-> d]
NoXyxy == <<>>

\* the key sets _to_bbox_xyxy reads, in its order; any other dict is None
_to_bbox_xyxy(bbox) ==
    CASE bbox.enc = "x1,y1,x2,y2"        -> <<bbox.a, bbox.b, bbox.c, bbox.d>>
      [] bbox.enc = "left,top,right,bottom" -> <<bbox.a, bbox.b, bbox.c, bbox.d>>
      [] bbox.enc = "x,y,w,h"            -> <<bbox.a, bbox.b, bbox.a + bbox.c, bbox.b + bbox.d>>
      [] bbox.enc = "x,y,width,height"   -> <<bbox.a, bbox.b, bbox.a + bbox.c, bbox.b + bbox.d>>
      [] OTHER                           -> NoXyxy

_bbox_area(xyxy) == Max(0, xyxy[3] - xyxy[1]) * Max(0, xyxy[4] - xyxy[2])

_bbox_intersection_area(left, right) ==
    _bbox_area(<<Max(left[1], right[1]), Max(left[2], right[2]),
                 Min(left[3], right[3]), Min(left[4], right[4])>>)

\* `overlap / hint_area >= 0.15`
OverlapEnough(overlap, hint_area) == overlap * 100 >= 15 * hint_area

KeepsHint(candidate_xyxy, hint) ==
    LET hint_xyxy == _to_bbox_xyxy(hint.bbox)
    IN  /\ hint_xyxy # NoXyxy
        /\ _bbox_intersection_area(candidate_xyxy, hint_xyxy) > 0
        /\ _bbox_area(hint_xyxy) > 0
        /\ OverlapEnough(_bbox_intersection_area(candidate_xyxy, hint_xyxy),
                         _bbox_area(hint_xyxy))

_filter_asset_hints_by_candidate_bbox(hints, candidate_bbox) ==
    LET candidate_xyxy == _to_bbox_xyxy(candidate_bbox)
    IN  IF candidate_xyxy = NoXyxy THEN hints
        ELSE SelectSeq(hints, LAMBDA hint : KeepsHint(candidate_xyxy, hint))

\* one hint per payload node that reads as a chart
NodeHint(bbox) ==
    [asset_type |-> "graph", source |-> "raw_payload_node", bbox |-> bbox,
     evidence |-> "chart"]

\* order-preserving removal of repeated (asset_type, source, bbox, evidence)
RECURSIVE _dedupe_asset_hints(_)
_dedupe_asset_hints(hints) ==
    IF hints = <<>> THEN <<>>
    ELSE LET front == _dedupe_asset_hints(SubSeq(hints, 1, Len(hints) - 1))
             last == hints[Len(hints)]
         IN  IF \E i \in 1..Len(front) : front[i] = last THEN front
             ELSE Append(front, last)

\* statement_graph: the statement text holds a graph keyword;
\* node_bboxes: the bboxes of the payload's chart nodes, in payload order
collect_problem_asset_hints(statement_graph, node_bboxes, candidate_bbox) ==
    LET supplied == candidate_bbox.enc # "none"
        statement_hints ==
            IF statement_graph
            THEN <<[asset_type |-> "graph", source |-> "statement_text",
                    bbox |-> candidate_bbox, evidence |-> "keyword"]>>
            ELSE <<>>
        node_hints == [i \in 1..Len(node_bboxes) |-> NodeHint(node_bboxes[i])]
        payload_hints ==
            IF supplied
            THEN _filter_asset_hints_by_candidate_bbox(node_hints, candidate_bbox)
            ELSE node_hints
        precise_payload_types ==
            {payload_hints[i].asset_type :
                i \in {j \in 1..Len(payload_hints) : payload_hints[j].bbox.enc # "none"}}
        kept_statement_hints ==
            SelectSeq(statement_hints,
                      LAMBDA hint : hint.asset_type \notin precise_payload_types)
        text_hints ==
            IF ~supplied /\ payload_hints = <<>> /\ node_bboxes # <<>>
            THEN <<[asset_type |-> "graph", source |-> "raw_payload_text",
                    bbox |-> NoneBBox, evidence |-> "chart"]>>
            ELSE <<>>
        hints == payload_hints \o kept_statement_hints \o text_hints
        fallback ==
            IF supplied /\ statement_graph
               /\ ~\E i \in 1..Len(hints) : hints[i].asset_type = "graph"
            THEN <<[asset_type |-> "graph", source |-> "statement_text_bbox_fallback",
                    bbox |-> candidate_bbox, evidence |-> "keyword_graph"]>>
            ELSE <<>>
    IN  _dedupe_asset_hints(hints \o fallback)

\* chart nodes: squares on the page's diagonal that touch a corner of the
\* page, an empty square, or a node without a bbox
NodeBBoxes ==
    {DictBBox("x1,y1,x2,y2", 0, 0, hi, hi) : hi \in 0..PageUnits}
    \cup {DictBBox("x1,y1,x2,y2", lo, lo, PageUnits, PageUnits) : lo \in 1..(PageUnits - 1)}
    \cup {NoneBBox}

\* the candidate's rectangle in every encoding: the bottom-right square of
\* side 1 or 2
CandidateBBoxes ==
    UNION {{DictBBox("x1,y1,x2,y2", PageUnits - side, PageUnits - side, PageUnits, PageUnits),
            DictBBox("left,top,right,bottom", PageUnits - side, PageUnits - side,
                     PageUnits, PageUnits),
            DictBBox("x,y,w,h", PageUnits - side, PageUnits - side, side, side),
            DictBBox("x,y,width,height", PageUnits - side, PageUnits - side, side, side),
            DictBBox("x0_ratio,y0_ratio,x1_ratio,y1_ratio", PageUnits - side,
                     PageUnits - side, PageUnits, PageUnits)} : side \in 1..2}
    \cup {NoneBBox}

HintInit ==
    /\ hintIn \in [statement_graph : BOOLEAN,
                    node_bboxes : SeqsUpTo(NodeBBoxes, MaxNodes),
                    candidate_bbox : CandidateBBoxes]
    /\ hintOut = <<>>
    /\ hintPc = "input"

HintIdle ==
    /\ hintIn = [statement_graph |-> FALSE, node_bboxes |-> <<>>,
                 candidate_bbox |-> NoneBBox]
    /\ hintOut = <<>>
    /\ hintPc = "idle"

CollectHints ==
    /\ hintPc = "input"
    /\ hintOut' = collect_problem_asset_hints(hintIn.statement_graph, hintIn.node_bboxes,
                                              hintIn.candidate_bbox)
    /\ hintPc' = "collected"
    /\ UNCHANGED hintIn
    /\ UNCHANGED notHintVars

(***************************************************************************)
(* Single calls of pure functions.  callIn holds the arguments, callOut    *)
(* the returned value.                                                     *)
(***************************************************************************)
CallIdle ==
    /\ callIn = <<>>
    /\ callOut = <<>>
    /\ callPc = "idle"

(***************************************************************************)
(* SpecSequence: _is_likely_problem_sequence on a list of captured         *)
(* numbers.                                                                *)
(***************************************************************************)
MaxNumbers == 5
NumberValues == {1, 2, 3, 5, 6, 9, 14}

\* the steps `0 < current - previous <= 3` among zip(numbers, numbers[1:])
IncreasingSteps(numbers) ==
    Cardinality({i \in 1..(Len(numbers) - 1) :
                    /\ 0 < numbers[i + 1] - numbers[i]
                    /\ numbers[i + 1] - numbers[i] <= 3})

_is_likely_problem_sequence(numbers) ==
    IF Len(numbers) <= 1 THEN FALSE
    ELSE IncreasingSteps(numbers) >= Max(1, Len(numbers) - 2)

SequenceInit ==
    /\ callIn \in SeqsUpTo(NumberValues, MaxNumbers)
    /\ callOut = <<>>
    /\ callPc = "input"

SequenceTest ==
    /\ callPc = "input"
    /\ callOut' = _is_likely_problem_sequence(callIn)
    /\ callPc' = "sequence_tested"
    /\ UNCHANGED callIn
    /\ UNCHANGED notCallVars

(***************************************************************************)
(* SpecSegment: extract_problem_candidates on one page.  The page text is  *)
(* a list of lines; a line either starts with a number in the form of one  *)
(* of the four split patterns, or is plain text, or is blank.  The payload *)
(* is None, or a dict that yields the column roots of its layout tree      *)
(* (each with the number _infer_candidate_no read, 0 for None) and its     *)
(* non-visual text.                                                        *)
(***************************************************************************)
MaxLines == 3

Line(pattern, no) == [pattern |-> pattern, no |-> no]
PlainLine == Line("plain", 0)
BlankLine == Line("blank", 0)

\* CANDIDATE_SPLIT_RE, BRACKETED_CANDIDATE_SPLIT_RE, QUESTION_LABEL_SPLIT_RE,
\* NUMBER_WITH_BEON_SPLIT_RE, in the order they are tried
SPLIT_PATTERNS == <<"numbered", "bracketed", "question_label", "number_with_beon">>

\* str.strip() on the lines of a text
RECURSIVE StripLines(_)
StripLines(lines) ==
    IF lines = <<>> THEN <<>>
    ELSE IF Head(lines) = BlankLine THEN StripLines(Tail(lines))
    ELSE IF lines[Len(lines)] = BlankLine THEN StripLines(SubSeq(lines, 1, Len(lines) - 1))
    ELSE lines

\* list(pattern.finditer(text)): the indexes of the matching lines
RECURSIVE MatchesOf(_, _, _)
MatchesOf(lines, pattern, i) ==
    IF i > Len(lines) THEN <<>>
    ELSE IF lines[i].pattern = pattern THEN <<i>> \o MatchesOf(lines, pattern, i + 1)
    ELSE MatchesOf(lines, pattern, i + 1)

PatternScore(lines, matches) ==
    Len(matches)
    + (IF _is_likely_problem_sequence([k \in 1..Len(matches) |-> lines[matches[k]].no])
       THEN 2 ELSE 0)

RECURSIVE BestSplitFrom(_, _, _)
BestSplitFrom(lines, p, best) ==
    IF p > Len(SPLIT_PATTERNS) THEN best
    ELSE LET matches == MatchesOf(lines, SPLIT_PATTERNS[p], 1)
         IN  IF matches # <<>> /\ PatternScore(lines, matches) > best.score
             THEN BestSplitFrom(lines, p + 1,
                      [matches |-> matches, strategy |-> SPLIT_PATTERNS[p],
                       score |-> PatternScore(lines, matches)])
             ELSE BestSplitFrom(lines, p + 1, best)

_select_best_split_matches(lines) ==
    BestSplitFrom(lines, 1, [matches |-> <<>>, strategy |-> "numbered", score |-> -1])

Candidate(candidate_no, statement_text, split_strategy) ==
    [candidate_no |-> candidate_no, statement_text |-> statement_text,
     split_strategy |-> split_strategy]

\* the finalisation loop of _extract_problem_candidates_from_layout over
\* the ordered column roots
RECURSIVE FinalizeLayout(_, _, _)
FinalizeLayout(ordered, index, used_candidate_no) ==
    IF index > Len(ordered) THEN <<>>
    ELSE LET inferred == ordered[index]
             replaced == inferred <= 0 \/ inferred \in used_candidate_no
             candidate_no ==
                 IF ~replaced THEN inferred
                 ELSE CHOOSE n \in index..(index + Len(ordered)) :
                          /\ n \notin used_candidate_no
                          /\ \A m \in index..(n - 1) : m \in used_candidate_no
         IN  <<Candidate(candidate_no, <<PlainLine>>, "layout_columns_single")>>
             \o FinalizeLayout(ordered, index + 1, used_candidate_no \cup {candidate_no})

_extract_problem_candidates_from_layout(payload) == FinalizeLayout(payload.roots, 1, {})

\* the split of a non-empty cleaned text
RegexSplit(cleaned) ==
    LET split == _select_best_split_matches(cleaned)
        matches == split.matches
    IN  IF matches = <<>>
        THEN <<Candidate(1, cleaned, "full_page_fallback")>>
        ELSE [k \in 1..Len(matches) |->
                 Candidate(cleaned[matches[k]].no,
                           StripLines(SubSeq(cleaned, matches[k],
                               IF k < Len(matches) THEN matches[k + 1] - 1 ELSE Len(cleaned))),
                           split.strategy)]

\* the regex path without the test of the cleaned text
RegexCandidates_NoBlankTest(cleaned) == RegexSplit(cleaned)

\* the regex path: `if not cleaned: return []`, then the split
RegexCandidates(cleaned) ==
    IF cleaned = <<>> THEN <<>> ELSE RegexSplit(cleaned)

extract_problem_candidates(text, page_raw_payload) ==
    IF page_raw_payload.is_dict
       /\ _extract_problem_candidates_from_layout(page_raw_payload) # <<>>
    THEN _extract_problem_candidates_from_layout(page_raw_payload)
    ELSE LET fallback_text ==
                 IF page_raw_payload.is_dict /\ page_raw_payload.non_visual_text # <<>>
                 THEN page_raw_payload.non_visual_text
                 ELSE text
         IN  RegexCandidates(StripLines(fallback_text))

SegLines ==
    {Line("numbered", 0), Line("numbered", 1), Line("numbered", 2), Line("bracketed", 1),
     Line("question_label", 1), Line("number_with_beon", 1), PlainLine, BlankLine}

NonePayload == [is_dict |-> FALSE, roots |-> <<>>, non_visual_text |-> <<>>]
SegPayloads ==
    {NonePayload}
    \cup [is_dict : {TRUE}, roots : SeqsUpTo({0, 1, 2}, 2), non_visual_text : {<<>>}]
    \cup [is_dict : {TRUE}, roots : {<<>>},
          non_visual_text : {<<PlainLine>>, <<Line("numbered", 1), Line("numbered", 1)>>}]

SegmentInit ==
    /\ callIn \in [text : SeqsUpTo(SegLines, MaxLines), page_raw_payload : SegPayloads]
    /\ callOut = <<>>
    /\ callPc = "input"

Segment ==
    /\ callPc = "input"
    /\ callOut' = extract_problem_candidates(callIn.text, callIn.page_raw_payload)
    /\ callPc' = "segmented"
    /\ UNCHANGED callIn
    /\ UNCHANGED notCallVars

(***************************************************************************)
(* SpecClassify: classify_candidate on one statement, with or without an   *)
(* API key, under every outcome of the external call.  A statement is      *)
(* its length, the keywords it contains and whether it has a '?'; a        *)
(* raised exception is the value Raised.                                   *)
(***************************************************************************)
ALLOWED_SUBJECT_CODES == {"MATH_I", "MATH_II", "PROB_STATS", "CALCULUS", "GEOMETRY"}
ALLOWED_SOURCE_CATEGORIES == {"past_exam", "linked_textbook", "other"}
ALLOWED_SOURCE_TYPES ==
    {"csat", "kice_mock", "office_mock", "ebs_linked", "private_mock",
     "workbook", "school_exam", "teacher_made", "other"}
ALLOWED_VALIDATION_STATUSES == {"valid", "needs_review", "invalid"}

\* A JSON number, a JSON string that is no number, NaN, or null / absent.
Num(v) == [kind |-> "num", v |-> v]
NotANumber == [kind |-> "str", v |-> 0]
NaN == [kind |-> "nan", v |-> 0]
NoNumber == [kind |-> "null", v |-> 0]

\* A value no set can hold (a JSON list): `x not in a_set` raises TypeError.
Unhashable == "<list>"

Raised == [raised |-> TRUE, subject_code |-> Null, point_value |-> NoNumber,
           source_category |-> Null, source_type |-> Null,
           validation_status |-> Null, confidence |-> NoNumber,
           provider |-> Null]

ClassifierResult(subject_code, point_value, source_category, source_type,
                 validation_status, confidence) ==
    [subject_code |-> subject_code, point_value |-> point_value,
     source_category |-> source_category, source_type |-> source_type,
     validation_status |-> validation_status, confidence |-> confidence]

\* Decimal(str(value)) inside try/except, then the clamp; comparing
\* Decimal('NaN') raises InvalidOperation out of the function.
ClampConfidence(value) ==
    IF value.kind = "num" THEN Num(Max(0, Min(100, value.v))) ELSE Num(0)

_normalize_result(result, provider) ==
    IF result.subject_code = Unhashable \/ result.confidence.kind = "nan"
    THEN Raised
    ELSE LET sourceOk == /\ result.source_category \in ALLOWED_SOURCE_CATEGORIES
                         /\ result.source_type \in ALLOWED_SOURCE_TYPES
         IN [raised |-> FALSE,
             subject_code |-> IF result.subject_code \in ALLOWED_SUBJECT_CODES
                              THEN result.subject_code ELSE Null,
             point_value |-> IF /\ result.point_value.kind = "num"
                                /\ result.point_value.v \in {2, 3, 4}
                             THEN result.point_value ELSE NoNumber,
             source_category |-> IF sourceOk THEN result.source_category ELSE Null,
             source_type |-> IF sourceOk THEN result.source_type ELSE Null,
             validation_status |->
                 IF result.validation_status \in ALLOWED_VALIDATION_STATUSES
                 THEN result.validation_status ELSE "needs_review",
             confidence |-> ClampConfidence(result.confidence),
             provider |-> provider]

\* Keywords of the heuristic, by the group they belong to: "vector" stands
\* for the GEOMETRY words, "probability" for PROB_STATS, "integral" for
\* CALCULUS, "log" for MATH_I, "killer" for the 4-point words and "next"
\* for the confidence cues.
_heuristic_classification(statement_text) ==
    LET has(k) == k \in statement_text.keywords
    IN ClassifierResult(
        IF has("vector") THEN "GEOMETRY"
        ELSE IF has("probability") THEN "PROB_STATS"
        ELSE IF has("integral") THEN "CALCULUS"
        ELSE IF has("log") THEN "MATH_I"
        ELSE "MATH_II",
        IF has("killer") THEN Num(4)
        ELSE IF statement_text.length < 80 THEN Num(2) ELSE Num(3),
        "other", "other",
        IF statement_text.length >= 30 /\ statement_text.question_mark
        THEN "valid" ELSE "needs_review",
        IF has("next") THEN Num(55) ELSE Num(35))

\* _classify_candidate_via_api: the request fails, the response carries no
\* output text or no JSON object, or json.loads returns an object.
ApiRaises(api) == api.outcome \in {"network_error", "empty_output", "not_json"}

classify_candidate(statement_text, api_key, api) ==
    LET viaApi == IF ApiRaises(api) THEN Raised
                  ELSE _normalize_result(api.result, "api")
    IN IF api_key /\ ~viaApi.raised
       THEN viaApi
       ELSE _normalize_result(_heuristic_classification(statement_text), "heuristic")

Statements ==
    {[keywords |-> {}, length |-> 10, question_mark |-> FALSE],
     [keywords |-> {"vector", "log", "next"}, length |-> 40, question_mark |-> TRUE],
     [keywords |-> {"probability", "killer"}, length |-> 100, question_mark |-> TRUE],
     [keywords |-> {"integral"}, length |-> 100, question_mark |-> FALSE]}

ApiResults ==
    {ClassifierResult(s, p, src[1], src[2], v, c) :
        s \in {"MATH_I", "BIOLOGY", Null, Unhashable},
        p \in {Num(3), Num(7), NoNumber},
        src \in {<<"other", "csat">>, <<"other", "zzz">>, <<Null, Null>>},
        v \in {"valid", "weird", Null},
        c \in {Num(0 - 5), Num(50), Num(1000), NotANumber, NaN, NoNumber}}

NoApiResult == ClassifierResult(Null, NoNumber, Null, Null, Null, NoNumber)

ApiOutcomes ==
    {[outcome |-> o, result |-> NoApiResult] :
        o \in {"network_error", "empty_output", "not_json"}}
    \cup {[outcome |-> "json_object", result |-> r] : r \in ApiResults}

ClassifyInit ==
    /\ callIn \in [statement_text : Statements, api_key : BOOLEAN, api : ApiOutcomes]
    /\ callOut = <<>>
    /\ callPc = "input"

Classify ==
    /\ callPc = "input"
    /\ callOut' = classify_candidate(callIn.statement_text, callIn.api_key, callIn.api)
    /\ callPc' = "classified"
    /\ UNCHANGED callIn
    /\ UNCHANGED notCallVars

(***************************************************************************)
(* SpecAttach: attach_answer_keys_to_scanned_pages on the scanned pages    *)
(* of one document, called twice in a row.  The pages hold problems and    *)
(* answer candidates; an answer key is its characters, a question number   *)
(* a JSON number or null.                                                  *)
(***************************************************************************)
MaxItems == 3
MAX_ANSWER_KEY_LEN == 40
AttachPageNos == {1, 2}

Key(chars) == [none |-> FALSE, chars |-> chars]
NoKey == [none |-> TRUE, chars |-> <<>>]
HasKey(key) == ~key.none /\ key.chars # <<>>

\* str(value).strip(), empty -> None, whitespace removed, cut at 40.
_normalize_answer_key(value) ==
    IF value.none THEN NoKey
    ELSE LET cleaned == SelectSeq(value.chars, LAMBDA ch : ch # " ")
         IN IF cleaned = <<>> THEN NoKey
            ELSE IF Len(cleaned) > MAX_ANSWER_KEY_LEN
                 THEN Key(SubSeq(cleaned, 1, MAX_ANSWER_KEY_LEN))
                 ELSE Key(cleaned)

_to_positive_int(value) ==
    IF value.kind = "num" /\ value.v > 0 THEN value ELSE NoNumber

AnswerMapPut_LastWins(answer_map, question_no, answer_key) ==
    IF question_no # NoNumber /\ answer_key # NoKey
    THEN [q \in DOMAIN answer_map \cup {question_no.v} |->
             IF q = question_no.v THEN answer_key ELSE answer_map[q]]
    ELSE answer_map
AnswerMapPut(answer_map, question_no, answer_key) ==
    IF question_no # NoNumber /\ answer_key # NoKey /\ question_no.v \notin DOMAIN answer_map
    THEN [q \in DOMAIN answer_map \cup {question_no.v} |->
             IF q = question_no.v THEN answer_key ELSE answer_map[q]]
    ELSE answer_map

RECURSIVE AnswerMapOfItems(_, _, _)
AnswerMapOfItems(answer_candidates, i, answer_map) ==
    IF i > Len(answer_candidates) THEN answer_map
    ELSE AnswerMapOfItems(answer_candidates, i + 1,
            AnswerMapPut(answer_map,
                         _to_positive_int(answer_candidates[i].question_no),
                         _normalize_answer_key(answer_candidates[i].answer_key)))

RECURSIVE AnswerMapOfPages(_, _, _)
AnswerMapOfPages(scanned_pages, p, answer_map) ==
    IF p > Len(scanned_pages) THEN answer_map
    ELSE AnswerMapOfPages(scanned_pages, p + 1,
            AnswerMapOfItems(scanned_pages[p].answer_candidates, 1, answer_map))

\* The second loop's body: the problem is updated or left as it is.
Matches(problem, answer_map) ==
    LET question_no == _to_positive_int(problem.question_no)
    IN /\ question_no # NoNumber
       /\ ~HasKey(problem.answer_key)
       /\ question_no.v \in DOMAIN answer_map

AttachProblem(problem, answer_map) ==
    IF Matches(problem, answer_map)
    THEN [problem EXCEPT !.answer_key = answer_map[problem.question_no.v],
                         !.answer_source = "answer_page"]
    ELSE problem

RECURSIVE CountMatches(_, _, _)
CountMatches(problems, i, answer_map) ==
    IF i > Len(problems) THEN 0
    ELSE (IF Matches(problems[i], answer_map) THEN 1 ELSE 0)
         + CountMatches(problems, i + 1, answer_map)

RECURSIVE SumMatches(_, _, _)
SumMatches(scanned_pages, p, answer_map) ==
    IF p > Len(scanned_pages) THEN 0
    ELSE CountMatches(scanned_pages[p].problems, 1, answer_map)
         + SumMatches(scanned_pages, p + 1, answer_map)

\* The pages after the call (the function updates them in place) and the
\* number it returns.
attach_answer_keys_to_scanned_pages(scanned_pages) ==
    LET answer_map == AnswerMapOfPages(scanned_pages, 1, << >>)
    IN [pages |-> [p \in DOMAIN scanned_pages |->
                      [scanned_pages[p] EXCEPT !.problems =
                          [i \in DOMAIN scanned_pages[p].problems |->
                              AttachProblem(scanned_pages[p].problems[i], answer_map)]]],
        matched |-> SumMatches(scanned_pages, 1, answer_map)]

Problem(question_no, answer_key) ==
    [kind |-> "problem", question_no |-> question_no, answer_key |-> answer_key,
     answer_source |-> Null]
AnswerItem(question_no, answer_key) ==
    [kind |-> "answer", question_no |-> question_no, answer_key |-> answer_key,
     answer_source |-> Null]

AttachItems ==
    {Problem(NoNumber, NoKey), Problem(Num(1), NoKey), Problem(Num(1), Key(<<"7">>)),
     Problem(Num(1), Key(<<>>)), Problem(Num(2), NoKey)}
    \cup {AnswerItem(Num(0), Key(<<"4">>)), AnswerItem(Num(1), Key(<<" ">>)),
          AnswerItem(Num(1), Key(<<"4", " ">>)), AnswerItem(Num(1), Key(<<"2">>)),
          AnswerItem(Num(2), Key(<<"2">>))}

\* The pages of a document from a list of (page, item) in reading order.
PagesOf(placed) ==
    [p \in AttachPageNos |->
        LET here == SelectSeq(placed, LAMBDA it : it.page = p)
            item(i) == here[i].item
            items == [i \in DOMAIN here |-> item(i)]
        IN [problems |-> SelectSeq(items, LAMBDA it : it.kind = "problem"),
            answer_candidates |-> SelectSeq(items, LAMBDA it : it.kind = "answer")]]

AttachInit ==
    /\ callIn \in {PagesOf(placed) :
                      placed \in SeqsUpTo([page : AttachPageNos, item : AttachItems], MaxItems)}
    /\ callOut = <<>>
    /\ callPc = "input"

Attach ==
    /\ callPc = "input"
    /\ callOut' = attach_answer_keys_to_scanned_pages(callIn)
    /\ callPc' = "attached"
    /\ UNCHANGED callIn
    /\ UNCHANGED notCallVars

\* The same pages, as the first call left them, are handed in again.
AttachAgain ==
    /\ callPc = "attached"
    /\ callOut' = attach_answer_keys_to_scanned_pages(callOut.pages)
    /\ callPc' = "attached_again"
    /\ callIn' = callOut.pages
    /\ UNCHANGED notCallVars

(***************************************************************************)
(* SpecClassifyStep: classify_ocr_job_step called again and again on one   *)
(* job whose pages keep their text.  A page is its text and the list       *)
(* stored under raw_payload.ai_classification.candidates.  A call is the   *)
(* loop over the pages, one page per step, and then the classification of  *)
(* the targets with the commit and the response.                           *)
(***************************************************************************)
StepPages == 2
MaxPerCall == 2

NoStepResponse ==
    [called |-> FALSE, done |-> FALSE, processed_in_call |-> 0,
     total_candidates |-> 0, candidates_processed |-> 0,
     pages_processed |-> 0, provider |-> "heuristic"]

StepIdle ==
    /\ stepPages = <<>>
    /\ stepMax = 0
    /\ stepPc = "idle"
    /\ stepPage = 0
    /\ stepTargets = <<>>
    /\ stepLast = NoStepResponse
    /\ stepUnfinished = 0

\* extract_problem_candidates(page_text, raw_payload) of a page: its text
\* does not change and its payload has no layout, so every call finds the
\* candidates that the row carries from the start
PageCandidates(page) == page.candidates

ExistingCandidateNo(existing_list) ==
    {existing_list[i].candidate_no : i \in DOMAIN existing_list}

\* the inner loop over page_candidates: a candidate is a target unless its
\* number is stored or was taken in this call, until the call is full
RECURSIVE TargetsOfPage(_, _, _, _)
TargetsOfPage(page_candidates, i, existing_candidate_no, room) ==
    IF i > Len(page_candidates) \/ room <= 0 THEN <<>>
    ELSE IF page_candidates[i].candidate_no \in existing_candidate_no
    THEN TargetsOfPage(page_candidates, i + 1, existing_candidate_no, room)
    ELSE <<page_candidates[i]>>
         \o TargetsOfPage(page_candidates, i + 1,
                existing_candidate_no \cup {page_candidates[i].candidate_no}, room - 1)

RECURSIVE SumFrom(_, _)
SumFrom(counts, p) ==
    IF p > Len(counts) THEN 0 ELSE counts[p] + SumFrom(counts, p + 1)

\* total_candidates, the stored entries, those of provider api, and the
\* pages that hold stored entries
TotalCandidates(pages) ==
    SumFrom([p \in DOMAIN pages |-> Len(PageCandidates(pages[p]))], 1)
StoredCount(pages) == SumFrom([p \in DOMAIN pages |-> Len(pages[p].stored)], 1)
ApiCount(pages) ==
    SumFrom([p \in DOMAIN pages |->
                Cardinality({i \in DOMAIN pages[p].stored :
                                pages[p].stored[i].provider = "api"})], 1)
PagesProcessed(pages) ==
    SumFrom([p \in DOMAIN pages |-> IF pages[p].stored # <<>> THEN 1 ELSE 0], 1)

\* updated_candidates.sort(key=candidate_no): a stable sort, the item at
\* place i goes behind the smaller ones and the equal ones before it
SortByCandidateNo(items) ==
    LET place(i) ==
            1 + Cardinality({j \in DOMAIN items :
                    \/ items[j].candidate_no < items[i].candidate_no
                    \/ items[j].candidate_no = items[i].candidate_no /\ j < i})
    IN  [k \in DOMAIN items |-> items[CHOOSE i \in DOMAIN items : place(i) = k]]

\* a handler that classifies and keeps nothing
StoreCandidate_Dropped(existing_items, candidate_out) == existing_items

\* the stored list after one classified candidate: the entries with its
\* number are replaced, else it is appended; then the list is sorted
StoreCandidate(existing_items, candidate_out) ==
    LET replaced == \E i \in DOMAIN existing_items :
                        existing_items[i].candidate_no = candidate_out.candidate_no
        updated == [i \in DOMAIN existing_items |->
                       IF existing_items[i].candidate_no = candidate_out.candidate_no
                       THEN candidate_out ELSE existing_items[i]]
    IN  SortByCandidateNo(IF replaced THEN updated ELSE Append(updated, candidate_out))

\* _build_ai_candidate_output
CandidateOut(candidate, provider) ==
    [candidate_no |-> candidate.candidate_no, statement_text |-> candidate.statement_text,
     provider |-> provider]

\* the loop over target_candidates
RECURSIVE StoreTargets(_, _, _, _)
StoreTargets(pages, target_candidates, k, provider) ==
    IF k = 0 THEN pages
    ELSE [StoreTargets(pages, target_candidates, k - 1, provider)
             EXCEPT ![target_candidates[k].page_key].stored =
                 StoreCandidate(@, CandidateOut(target_candidates[k].candidate, provider))]

StepResponse(done, processed_in_call, total, processed, pages_processed, provider) ==
    [called |-> TRUE, done |-> done, processed_in_call |-> processed_in_call,
     total_candidates |-> total, candidates_processed |-> processed,
     pages_processed |-> pages_processed, provider |-> provider]

\* Page texts: blank, one unnumbered problem, two numbered problems, two
\* problems that carry the same number, and three problems.
StepTexts ==
    {<<BlankLine>>,
     <<PlainLine>>,
     <<Line("numbered", 1), Line("numbered", 2)>>,
     <<Line("numbered", 1), PlainLine, Line("numbered", 1)>>,
     <<Line("numbered", 1), Line("numbered", 2), PlainLine, Line("numbered", 3)>>}

StepInit ==
    /\ stepPages \in {[p \in 1..n |->
                          [text |-> texts[p],
                           candidates |-> extract_problem_candidates(texts[p], NonePayload),
                           stored |-> <<>>]] :
                         n \in 1..StepPages, texts \in [1..StepPages -> StepTexts]}
    /\ stepMax \in 1..MaxPerCall
    /\ stepPc = "idle"
    /\ stepPage = 0
    /\ stepTargets = <<>>
    /\ stepLast = NoStepResponse
    /\ stepUnfinished = 0

\* a request arrives and the handler has read the pages
StepCall ==
    /\ stepPc = "idle"
    /\ stepPages # <<>>
    /\ stepPc' = "pages"
    /\ stepPage' = 1
    /\ stepTargets' = <<>>
    /\ UNCHANGED <<stepPages, stepMax, stepLast, stepUnfinished>>
    /\ UNCHANGED notStepVars

\* one round of `for page in pages`
StepScanPage ==
    /\ stepPc = "pages"
    /\ stepPage <= Len(stepPages)
    /\ stepTargets' =
           stepTargets
           \o [k \in DOMAIN TargetsOfPage(PageCandidates(stepPages[stepPage]), 1,
                                ExistingCandidateNo(stepPages[stepPage].stored),
                                stepMax - Len(stepTargets)) |->
                  [page_key |-> stepPage,
                   candidate |->
                       TargetsOfPage(PageCandidates(stepPages[stepPage]), 1,
                           ExistingCandidateNo(stepPages[stepPage].stored),
                           stepMax - Len(stepTargets))[k]]]
    /\ stepPage' = stepPage + 1
    /\ UNCHANGED <<stepPages, stepMax, stepPc, stepLast, stepUnfinished>>
    /\ UNCHANGED notStepVars

\* after the loop: the two early answers, or the classification of the
\* targets, the UPDATE of the touched pages and the response; provider is
\* what classify_candidate reports for the candidates of this call
StepFinish ==
    /\ stepPc = "pages"
    /\ stepPage > Len(stepPages)
    /\ \E provider \in {"api", "heuristic"} :
          IF TotalCandidates(stepPages) = 0
          THEN /\ stepLast' = StepResponse(TRUE, 0, 0, 0, 0, "heuristic")
               /\ UNCHANGED stepPages
          ELSE IF stepTargets = <<>>
          THEN /\ stepLast' = StepResponse(TRUE, 0, TotalCandidates(stepPages),
                                  StoredCount(stepPages), PagesProcessed(stepPages),
                                  IF ApiCount(stepPages) > 0 THEN "api" ELSE "heuristic")
               /\ UNCHANGED stepPages
          ELSE /\ stepPages' = StoreTargets(stepPages, stepTargets, Len(stepTargets), provider)
               /\ stepLast' = StepResponse(
                      StoredCount(stepPages) + Len(stepTargets) >= TotalCandidates(stepPages),
                      Len(stepTargets), TotalCandidates(stepPages),
                      StoredCount(stepPages) + Len(stepTargets),
                      PagesProcessed(stepPages'),
                      IF ApiCount(stepPages') > 0 THEN "api" ELSE "heuristic")
    /\ stepUnfinished' = stepUnfinished + (IF stepLast'.done THEN 0 ELSE 1)
    /\ stepPc' = "idle"
    /\ UNCHANGED <<stepMax, stepPage, stepTargets>>
    /\ UNCHANGED notStepVars

(***************************************************************************)
(* SpecJob: one ocr_jobs row (created by create_ocr_job) and its pages     *)
(* under the handlers of routers/ocr_jobs.py.  A handler is one action     *)
(* per database commit: submit reads the row, calls the provider and       *)
(* writes; problem-ocr commits 'processing' and later its final status.    *)
(***************************************************************************)
MaxRequests == 2          \* concurrent submit requests
MaxProviderSubmits == 2   \* submit calls that reach the provider
MaxScannedPages == 1      \* pages an ai-preprocess scan returns

Requests == 1..MaxRequests
TERMINAL == {"completed", "failed", "cancelled"}

SItem1 == ("page" :> JNum(100) @@ "text" :> JStr(" T1 ") @@ "image_id" :> JStr("s1"))
SItem2 == ("page" :> JNum(200) @@ "latex_styled" :> JStr("X2"))
SItem3 == ("text" :> JStr("  ") @@ "number" :> JStr("2"))
LItem1 == ("page" :> JNum(100) @@ "lines" :> JLines("L1", 2) @@ "image_id" :> JStr("l1"))
LItem2 == ("page" :> JNum(200) @@ "lines" :> JLines("", 0) @@ "latex" :> JStr("Y2"))
NotADict == ("__not_a_dict__" :> JNull)

NoList == [is_list |-> FALSE, items |-> <<>>]
List(items) == [is_list |-> TRUE, items |-> items]

EmptyPayload ==
    [completed |-> JNull, status |-> JNull, state |-> JNull, error |-> JNull,
     percent_done |-> JNull, progress_pct |-> JNull, progress |-> JNull,
     percent |-> JNull, pages |-> NoList, line_data |-> JNull, text |-> JNull]

\* status payloads the provider may answer a sync with
StatusOnlyPayloads ==
    { EmptyPayload,
      [EmptyPayload EXCEPT !.status = JStr("processing"), !.percent_done = JNum(42)],
      [EmptyPayload EXCEPT !.status = JStr("queued")],
      [EmptyPayload EXCEPT !.status = JStr("failed"), !.error = JStr("x")],
      [EmptyPayload EXCEPT !.status = JStr("error"), !.percent_done = JNum(4200)],
      [EmptyPayload EXCEPT !.completed = JStr("false"), !.status = JStr("processing")] }

PagePayloads ==
    { [EmptyPayload EXCEPT !.completed = JBool(TRUE), !.pages = List(<<SItem1, SItem2>>)],
      [EmptyPayload EXCEPT !.status = JStr(" Completed "), !.pages = List(<<NotADict, SItem3>>)],
      [EmptyPayload EXCEPT !.state = JStr("done"), !.text = JStr(" T1 ")],
      [EmptyPayload EXCEPT !.status = JStr("processing"), !.pages = List(<<SItem2>>)],
      [EmptyPayload EXCEPT !.status = JStr("failed"), !.error = JStr("x"),
                           !.line_data = JLines(" T1 ", 1)] }

\* SpecJob follows the job row: one payload with pages is enough there
JobSyncPayloads ==
    StatusOnlyPayloads \cup
    { [EmptyPayload EXCEPT !.completed = JBool(TRUE), !.pages = List(<<SItem1>>)] }

SyncPayloads == PagePayloads

\* lines.json payloads
NoLinesPayload == [pages |-> NoList]
JobLinePayloads == { [pages |-> List(<<LItem1>>)] }
LinePayloads ==
    { NoLinesPayload,
      [pages |-> List(<<LItem2, LItem1>>)] }

LinesOutcomes == {"fetch_raises", "parse_raises", "ok"}

NoOp ==
    [op |-> "none", tick |-> 0, http |-> 0, event |-> "none",
     linesFetches |-> 0, linesOutcome |-> "none", payload |-> EmptyPayload]

\* the response of a handler; tick flips with every finished handler
Done(op, http, event) ==
    [NoOp EXCEPT !.op = op, !.tick = 1 - lastOp.tick, !.http = http, !.event = event]

NoPages == [n \in {} |-> 0]

JobInit ==
    /\ job \in [provider : {"mathpix", "upstage"}, provider_job_id : {0},
                status : {"queued"}, progress_pct : {0}, error_code : {Null},
                error_message : {Null}, finished_at : {FALSE}]
    /\ ocr_pages = NoPages
    /\ submitReq = [r \in Requests |-> "idle"]
    /\ pocr = "idle"
    /\ lastOp = NoOp
    /\ providerSubmits = 0

JobIdle ==
    /\ job = [provider |-> "mathpix", provider_job_id |-> 0, status |-> "queued",
              progress_pct |-> 0, error_code |-> Null, error_message |-> Null,
              finished_at |-> FALSE]
    /\ ocr_pages = NoPages
    /\ submitReq = [r \in Requests |-> "idle"]
    /\ pocr = "idle"
    /\ lastOp = NoOp
    /\ providerSubmits = 0

InFlightSubmits == Cardinality({r \in Requests : submitReq[r] = "calling"})

\* submit_ocr_job_to_mathpix up to the provider call: the SELECT and the
\* three guards, then _resolve_mathpix_file_url.
SubmitBegin(r, file_url_ok) ==
    /\ submitReq[r] = "idle"
    /\ providerSubmits + InFlightSubmits < MaxProviderSubmits
    /\ IF job.provider # "mathpix"
       THEN /\ lastOp' = Done("submit", 400, "provider_not_mathpix")
            /\ UNCHANGED submitReq
       ELSE IF job.provider_job_id # 0
       THEN /\ lastOp' = Done("submit", 409, "provider_job_id_exists")
            /\ UNCHANGED submitReq
       ELSE IF ~file_url_ok
       THEN /\ lastOp' = Done("submit", 400, "file_url_rejected")
            /\ UNCHANGED submitReq
       ELSE /\ submitReq' = [submitReq EXCEPT ![r] = "calling"]
            /\ UNCHANGED lastOp
    /\ UNCHANGED <<job, ocr_pages, pocr, providerSubmits>>

SubmitOutcomes == {"raises", "missing_job_id", "job_id", "unique_violation"}

\* the row submit writes when the provider returned a job id
SubmitUpdate(row, provider_job_id) ==
    [row EXCEPT !.provider_job_id = provider_job_id, !.status = "processing",
                !.progress_pct = 500, !.error_code = Null, !.error_message = Null]

\* the row submit leaves when the provider call raised or returned no id
SubmitFailure(row) == row

\* submit_ocr_job_to_mathpix from submit_mathpix_pdf to the response.
SubmitFinish(r, outcome) ==
    /\ submitReq[r] = "calling"
    /\ submitReq' = [submitReq EXCEPT ![r] = "idle"]
    /\ providerSubmits' = providerSubmits + 1
    /\ CASE outcome = "raises" ->
              /\ job' = SubmitFailure(job)
              /\ lastOp' = Done("submit", 502, "provider_raised")
         [] outcome = "missing_job_id" ->
              /\ job' = SubmitFailure(job)
              /\ lastOp' = Done("submit", 502, "missing_job_id")
         [] outcome = "unique_violation" ->
              /\ job' = job
              /\ lastOp' = Done("submit", 409, "unique_violation")
         [] outcome = "job_id" ->
              /\ job' = SubmitUpdate(job, providerSubmits')
              /\ lastOp' = Done("submit", 200, "submitted")
    /\ UNCHANGED <<ocr_pages, pocr>>

\* SyncPages with a handler that gives up the status pages when the lines
\* fetch raises
SyncPages_LosesPagesOnRaise(payload, mapped_status, lines_outcome, lines_payload) ==
    LET pages == extract_mathpix_pages(payload)
        line_pages == extract_mathpix_pages_from_lines(lines_payload)
    IN  IF mapped_status = "completed" /\ lines_outcome # "ok" THEN <<>>
        ELSE IF mapped_status = "completed" /\ line_pages # <<>>
        THEN merge_mathpix_pages(pages, line_pages)
        ELSE pages

\* the pages a sync stores: the status pages, merged with the line pages
\* when the one lines fetch of a completed job succeeds and yields pages
SyncPages(payload, mapped_status, lines_outcome, lines_payload) ==
    LET pages == extract_mathpix_pages(payload)
        line_pages == extract_mathpix_pages_from_lines(lines_payload)
    IN  IF mapped_status = "completed" /\ lines_outcome = "ok" /\ line_pages # <<>>
        THEN merge_mathpix_pages(pages, line_pages)
        ELSE pages

\* lines fetches a sync performs
SyncLinesFetches(mapped_status) == IF mapped_status = "completed" THEN 1 ELSE 0

\* the UPDATE ocr_jobs of the sync handler
SyncUpdate(row, mapped) ==
    [row EXCEPT !.status = mapped[1], !.progress_pct = mapped[2],
                !.error_code = IF mapped[3] = NoError THEN Null ELSE "MATHPIX_ERROR",
                !.error_message = mapped[3],
                !.finished_at = IF mapped[1] \in TERMINAL THEN TRUE ELSE row.finished_at]

\* sync_ocr_job_with_mathpix
Sync(status_ok, payload, lines_outcome, lines_payload) ==
    IF job.provider # "mathpix"
    THEN /\ lastOp' = Done("sync", 400, "provider_not_mathpix")
         /\ UNCHANGED <<job, ocr_pages, submitReq, pocr, providerSubmits>>
    ELSE IF job.provider_job_id = 0
    THEN /\ lastOp' = Done("sync", 400, "provider_job_id_empty")
         /\ UNCHANGED <<job, ocr_pages, submitReq, pocr, providerSubmits>>
    ELSE IF ~status_ok
    THEN /\ lastOp' = Done("sync", 502, "status_request_failed")
         /\ UNCHANGED <<job, ocr_pages, submitReq, pocr, providerSubmits>>
    ELSE LET mapped == map_mathpix_job_status(payload)
             fetches == SyncLinesFetches(mapped[1])
         IN  /\ ocr_pages' = UpsertSyncPages(ocr_pages,
                                 SyncPages(payload, mapped[1], lines_outcome, lines_payload),
                                 mapped[1])
             /\ job' = SyncUpdate(job, mapped)
             /\ lastOp' = [Done("sync", 200, "synced") EXCEPT
                              !.linesFetches = fetches,
                              !.linesOutcome = IF fetches = 0 THEN "none" ELSE lines_outcome,
                              !.payload = payload]
             /\ UNCHANGED <<submitReq, pocr, providerSubmits>>

\* the first UPDATE ocr_jobs of run_problem_level_ocr_pipeline
ProblemOcrStart(row) ==
    [row EXCEPT !.status = "processing", !.progress_pct = 1000, !.finished_at = FALSE,
                !.error_code = Null, !.error_message = Null]

\* run_problem_level_ocr_pipeline up to its first commit
ProblemOcrBegin(source_ok) ==
    /\ pocr = "idle"
    /\ IF DOMAIN ocr_pages = {}
       THEN /\ lastOp' = Done("problem_ocr", 400, "no_pages")
            /\ UNCHANGED <<job, pocr>>
       ELSE IF ~source_ok
       THEN /\ lastOp' = Done("problem_ocr", 502, "source_pdf_unavailable")
            /\ UNCHANGED <<job, pocr>>
       ELSE /\ job' = ProblemOcrStart(job)
            /\ pocr' = "running"
            /\ UNCHANGED lastOp
    /\ UNCHANGED <<ocr_pages, submitReq, providerSubmits>>

HasProblems(row) == "ai_preprocess" \in DOMAIN row.raw_payload

\* run_problem_level_ocr_pipeline from the page loop to the response
ProblemOcrFinish(outcome) ==
    /\ pocr = "running"
    /\ pocr' = "idle"
    /\ CASE outcome = "ok" ->
              /\ ocr_pages' = [n \in DOMAIN ocr_pages |->
                                  IF HasProblems(ocr_pages[n])
                                  THEN [ocr_pages[n] EXCEPT !.status = "completed"]
                                  ELSE ocr_pages[n]]
              /\ job' = [job EXCEPT !.status = "completed", !.progress_pct = 10000,
                                    !.finished_at = TRUE, !.error_code = Null,
                                    !.error_message = Null]
              /\ lastOp' = Done("problem_ocr", 200, "completed")
         [] outcome = "exception" ->
              /\ ocr_pages' = ocr_pages
              /\ job' = [job EXCEPT !.status = "failed", !.error_code = "PROBLEM_OCR_ERROR",
                                    !.error_message = "str(exc)", !.finished_at = TRUE]
              /\ lastOp' = Done("problem_ocr", 500, "failed")
         [] outcome = "exception_unrecorded" ->
              /\ UNCHANGED <<ocr_pages, job>>
              /\ lastOp' = Done("problem_ocr", 500, "failure_not_recorded")
    /\ UNCHANGED <<submitReq, providerSubmits>>

\* The statement texts the scan read are dropped: `del problem_items`.
_build_ai_preprocess_extracted_text_Statements(problem_items) ==
    IF problem_items = <<>> THEN Null ELSE problem_items[1].statement_text
_build_ai_preprocess_extracted_text(problem_items) == Null

\* the INSERT ... ON CONFLICT of preprocess_ocr_job_with_ai for one page
UpsertScannedPage(rows, page_no, problem_items) ==
    LET scanned == ("ai_preprocess" :> JDict("", 5))
        row == IF page_no \in DOMAIN rows
               THEN [rows[page_no] EXCEPT
                        !.extracted_text =
                            IF @ # Null THEN @
                            ELSE _build_ai_preprocess_extracted_text(problem_items),
                        !.raw_payload = scanned @@ @]
               ELSE [status |-> "processing",
                     extracted_text |-> _build_ai_preprocess_extracted_text(problem_items),
                     extracted_latex |-> Null,
                     raw_payload |-> scanned]
    IN  [n \in DOMAIN rows \cup {page_no} |-> IF n = page_no THEN row ELSE rows[n]]

RECURSIVE UpsertScannedPages(_, _, _)
UpsertScannedPages(rows, count, problem_items) ==
    IF count = 0 THEN rows
    ELSE UpsertScannedPage(UpsertScannedPages(rows, count - 1, problem_items),
                           count, problem_items)

\* The problems a scanned page carries: none, or statements the AI read.
ScannedProblemItems ==
    {<<>>, <<[candidate_no |-> 1, statement_text |-> "AI statement"]>>}

\* preprocess_ocr_job_with_ai: the job's status is not written
Preprocess(scan_ok, scanned_pages, problem_items) ==
    /\ IF ~scan_ok
       THEN /\ lastOp' = Done("ai_preprocess", 502, "scan_failed")
            /\ UNCHANGED ocr_pages
       ELSE /\ ocr_pages' = UpsertScannedPages(ocr_pages, scanned_pages, problem_items)
            /\ lastOp' = Done("ai_preprocess", 200, "preprocessed")
    /\ UNCHANGED <<job, submitReq, pocr, providerSubmits>>

(***************************************************************************)
(* SpecScan: scan_pdf_document_with_gemini.  The main thread renders and   *)
(* submits pages; every submitted page scan is a worker that finishes, ok  *)
(* or with an error, at any later moment.                                  *)
(***************************************************************************)
MaxDocPages == 4      \* pages of the PDF
MaxParallel == 3      \* largest max_parallel_pages argument

Pages == 1..MaxDocPages


ScanInit ==
    /\ scanIn \in [doc_pages : 0..MaxDocPages, max_pages : {0, 2, MaxDocPages},
                   max_parallel_pages : 0..MaxParallel]
    /\ scanPc = "start"
    /\ docOpen = FALSE
    /\ total_pages = 0
    /\ max_workers = 0
    /\ next_page_no = 1
    /\ future_to_page_no = {}
    /\ futureState = [p \in Pages |-> "none"]
    /\ doneSet = {}
    /\ page_results = <<>>
    /\ scanResult = <<>>
    /\ submitCount = [p \in Pages |-> 0]

ScanIdle ==
    /\ scanIn = [doc_pages |-> 0, max_pages |-> 0, max_parallel_pages |-> 0]
    /\ scanPc = "start"
    /\ docOpen = FALSE
    /\ total_pages = 0
    /\ max_workers = 0
    /\ next_page_no = 1
    /\ future_to_page_no = {}
    /\ futureState = [p \in Pages |-> "none"]
    /\ doneSet = {}
    /\ page_results = <<>>
    /\ scanResult = <<>>
    /\ submitCount = [p \in Pages |-> 0]

\* max_workers of _scan_document_pages_in_parallel
PoolSize(total, max_parallel_pages) == Min(total, Max(1, max_parallel_pages))

\* the result a page scan returns: _normalize_scanned_page(..., page_no=page_no)
ScannedPage(page_no) == [page_no |-> page_no]

\* scan_pdf_document_with_gemini from its entry to the choice of path
ScanStart ==
    /\ scanPc = "start"
    /\ IF scanIn.max_pages <= 0
       THEN /\ scanPc' = "returned"
            /\ UNCHANGED <<docOpen, total_pages, max_workers>>
       ELSE LET total == Min(scanIn.doc_pages, scanIn.max_pages)
                parallel == Max(1, scanIn.max_parallel_pages)
            IN  /\ total_pages' = total
                /\ IF total <= 0
                   THEN /\ scanPc' = "returned"
                        /\ docOpen' = FALSE
                        /\ UNCHANGED max_workers
                   ELSE IF parallel = 1
                   THEN /\ scanPc' = "sequential"
                        /\ docOpen' = TRUE
                        /\ UNCHANGED max_workers
                   ELSE /\ scanPc' = "fill"
                        /\ docOpen' = TRUE
                        /\ max_workers' = PoolSize(total, parallel)
    /\ UNCHANGED <<scanIn, next_page_no, future_to_page_no, futureState, doneSet,
                   page_results, scanResult, submitCount>>
    /\ UNCHANGED notScanVars

\* one iteration of the sequential loop (parallel == 1): render, scan, append
ScanSequentialPage(outcome) ==
    /\ scanPc = "sequential"
    /\ IF next_page_no > total_pages
       THEN /\ scanResult' = [i \in 1..Len(page_results) |-> page_results[i]]
            /\ scanPc' = "returned"
            /\ docOpen' = FALSE
            /\ UNCHANGED <<next_page_no, page_results, submitCount>>
       ELSE IF outcome # "ok"
       THEN /\ scanPc' = "raised"
            /\ docOpen' = FALSE
            /\ submitCount' = [submitCount EXCEPT ![next_page_no] =
                                  IF outcome = "scan_error" THEN @ + 1 ELSE @]
            /\ UNCHANGED <<next_page_no, page_results, scanResult>>
       ELSE /\ page_results' = Append(page_results, ScannedPage(next_page_no))
            /\ submitCount' = [submitCount EXCEPT ![next_page_no] = @ + 1]
            /\ next_page_no' = next_page_no + 1
            /\ UNCHANGED <<scanPc, docOpen, scanResult>>
    /\ UNCHANGED <<scanIn, total_pages, max_workers, future_to_page_no, futureState, doneSet>>
    /\ UNCHANGED notScanVars

\* the guard with an off-by-one comparison
WindowHasRoom_OffByOne(in_flight, workers) == Cardinality(in_flight) <= workers

\* the guard of the first while loop
WindowHasRoom(in_flight, workers) == Cardinality(in_flight) < workers

\* render next_page_no and executor.submit it
SubmitNextPage ==
    /\ future_to_page_no' = future_to_page_no \cup {next_page_no}
    /\ futureState' = [futureState EXCEPT ![next_page_no] = "running"]
    /\ submitCount' = [submitCount EXCEPT ![next_page_no] = @ + 1]
    /\ next_page_no' = next_page_no + 1

\* one iteration of the first while loop of _scan_document_pages_in_parallel
ScanFill(render_ok) ==
    /\ scanPc = "fill"
    /\ IF next_page_no <= total_pages /\ WindowHasRoom(future_to_page_no, max_workers)
       THEN IF render_ok
            THEN /\ SubmitNextPage
                 /\ UNCHANGED scanPc
            ELSE /\ scanPc' = "shutdown"
                 /\ UNCHANGED <<future_to_page_no, futureState, submitCount, next_page_no>>
       ELSE /\ scanPc' = "wait"
            /\ UNCHANGED <<future_to_page_no, futureState, submitCount, next_page_no>>
    /\ UNCHANGED <<scanIn, docOpen, total_pages, max_workers, doneSet, page_results, scanResult>>
    /\ UNCHANGED notScanVars

\* a worker thread finishes _scan_rendered_page_with_gemini
WorkerFinish(p, ok) ==
    /\ futureState[p] = "running"
    /\ futureState' = [futureState EXCEPT ![p] = IF ok THEN "ok" ELSE "error"]
    /\ UNCHANGED <<scanIn, scanPc, docOpen, total_pages, max_workers, next_page_no,
                   future_to_page_no, doneSet, page_results, scanResult, submitCount>>
    /\ UNCHANGED notScanVars

\* the result list taken in collection order
ScanReturnList_CompletionOrder(results, total) ==
    [i \in 1..total |-> results[i]]

\* [page_results[page_no] for page_no in range(1, total_pages + 1)]
ScanReturnList(results, total) ==
    [page_no \in 1..total |->
        results[CHOOSE i \in 1..Len(results) : results[i].page_no = page_no]]

\* `while future_to_page_no:` with wait(..., FIRST_COMPLETED); when nothing
\* is in flight the executor is left and the list returned
ScanWait ==
    /\ scanPc = "wait"
    /\ IF future_to_page_no = {}
       THEN /\ scanResult' = ScanReturnList(page_results, total_pages)
            /\ scanPc' = "returned"
            /\ docOpen' = FALSE
            /\ UNCHANGED doneSet
       ELSE /\ \E done \in SUBSET {p \in future_to_page_no : futureState[p] # "running"} :
                 /\ done # {}
                 /\ doneSet' = done
            /\ scanPc' = "collect"
            /\ UNCHANGED <<scanResult, docOpen>>
    /\ UNCHANGED <<scanIn, total_pages, max_workers, next_page_no, future_to_page_no,
                   futureState, page_results, submitCount>>
    /\ UNCHANGED notScanVars

\* `for finished in done:` pop the future and take its result
ScanCollect ==
    /\ scanPc = "collect"
    /\ IF doneSet = {}
       THEN /\ scanPc' = "wait"
            /\ UNCHANGED <<doneSet, future_to_page_no, page_results>>
       ELSE \E p \in doneSet :
              /\ doneSet' = doneSet \ {p}
              /\ future_to_page_no' = future_to_page_no \ {p}
              /\ IF futureState[p] = "error"
                 THEN /\ scanPc' = "shutdown"
                      /\ UNCHANGED page_results
                 ELSE /\ page_results' = Append(page_results, ScannedPage(p))
                      /\ scanPc' = IF next_page_no <= total_pages
                                   THEN "submit_next" ELSE "collect"
    /\ UNCHANGED <<scanIn, docOpen, total_pages, max_workers, next_page_no, futureState,
                   scanResult, submitCount>>
    /\ UNCHANGED notScanVars

\* the submit inside the collection loop
ScanSubmitNext(render_ok) ==
    /\ scanPc = "submit_next"
    /\ IF render_ok
       THEN /\ SubmitNextPage
            /\ scanPc' = "collect"
       ELSE /\ scanPc' = "shutdown"
            /\ UNCHANGED <<future_to_page_no, futureState, submitCount, next_page_no>>
    /\ UNCHANGED <<scanIn, docOpen, total_pages, max_workers, doneSet, page_results, scanResult>>
    /\ UNCHANGED notScanVars

\* an error leaves the `with ThreadPoolExecutor` block, which joins the
\* running workers, then the `finally: doc.close()`
ScanShutdown ==
    /\ scanPc = "shutdown"
    /\ \A p \in Pages : futureState[p] # "running"
    /\ scanPc' = "raised"
    /\ docOpen' = FALSE
    /\ UNCHANGED <<scanIn, total_pages, max_workers, next_page_no, future_to_page_no,
                   futureState, doneSet, page_results, scanResult, submitCount>>
    /\ UNCHANGED notScanVars

ScanSequentialStep == \E outcome \in {"ok", "render_error", "scan_error"} : ScanSequentialPage(outcome)
ScanFillStep == \E render_ok \in BOOLEAN : ScanFill(render_ok)
ScanWorkerStep == \E p \in Pages, ok \in BOOLEAN : WorkerFinish(p, ok)
ScanSubmitNextStep == \E render_ok \in BOOLEAN : ScanSubmitNext(render_ok)

(***************************************************************************)
(* SpecRetry: the retry loops of the two HTTP callers.  One action is one  *)
(* HTTP request with everything the caller does on its response (sleep,    *)
(* next attempt, next model, return or raise).  A page scan and a          *)
(* single-image OCR call run side by side, as in the problem-level         *)
(* pipeline, and share no state.                                           *)
(***************************************************************************)
MaxPageNo == 2

_TRANSIENT_STATUS_CODES == {429, 500, 502, 503, 504}
_MAX_GEMINI_RETRIES_PER_MODEL == 4
_MAX_MATHPIX_RETRIES == 3
_GEMINI_FALLBACK_MODEL == "gemini-2.5-flash"

\* the responses a request can meet: a 2xx body, a 2xx body that is not
\* JSON, a 2xx body with an error field (Mathpix), an HTTP error status, a
\* connection error (httpx.RequestError)
HttpCodes == {400, 404} \cup _TRANSIENT_STATUS_CODES
Responses ==
    {[kind |-> k, code |-> 200] : k \in {"ok", "invalid_json", "error_body"}}
    \cup {[kind |-> "http_error", code |-> c] : c \in HttpCodes}
    \cup {[kind |-> "request_error", code |-> 0]}
NoResponse == [kind |-> "none", code |-> 0]

\* the exception handlers that retry
IsTransient(resp) ==
    \/ resp.kind = "http_error" /\ resp.code \in _TRANSIENT_STATUS_CODES
    \/ resp.kind = "request_error"

\* the budget test with an off-by-one comparison
BudgetExhausted_OffByOne(attempt, budget) == attempt > budget

\* `attempt >= _MAX_..._RETRIES`
BudgetExhausted(attempt, budget) == attempt >= budget

GeminiModels == {"gemini-2.5-pro", _GEMINI_FALLBACK_MODEL}
ModelArguments == GeminiModels \cup {" "}

\* str.strip() of a model argument
StripModel(model) == IF model = " " THEN "" ELSE model

\* the candidate list with the fallback model tried first
_build_model_candidates_FallbackFirst(primary_model) ==
    IF StripModel(primary_model) \in {"", _GEMINI_FALLBACK_MODEL}
    THEN <<_GEMINI_FALLBACK_MODEL>>
    ELSE <<_GEMINI_FALLBACK_MODEL, StripModel(primary_model)>>

_build_model_candidates(primary_model) ==
    LET normalized_primary == StripModel(primary_model)
        candidates == IF normalized_primary # "" THEN <<normalized_primary>> ELSE <<>>
    IN  IF \E i \in 1..Len(candidates) : candidates[i] = _GEMINI_FALLBACK_MODEL
        THEN candidates
        ELSE Append(candidates, _GEMINI_FALLBACK_MODEL)

NoOutcome == [kind |-> "none", used_model |-> "", page_no |-> 0,
              attempted_models |-> <<>>, attempts |-> 0, last_status |-> 0]

RetryInit ==
    /\ gemIn \in [model : ModelArguments, page_no : 1..MaxPageNo]
    /\ gemPc = "start"
    /\ gemCandidates = <<>>
    /\ gemIdx = 1
    /\ gemAttempt = 1
    /\ gemLastStatus = 0
    /\ gemAttempted = <<>>
    /\ gemRequests = [m \in GeminiModels |-> 0]
    /\ gemFailures = [m \in GeminiModels |-> 0]
    /\ gemLast = [model |-> "", resp |-> NoResponse]
    /\ gemOutcome = NoOutcome
    /\ mpxPc = "requesting"
    /\ mpxAttempt = 1
    /\ mpxRequests = 0
    /\ mpxLast = NoResponse
    /\ mpxOutcome = "none"

RetryIdle ==
    /\ gemIn = [model |-> " ", page_no |-> 1]
    /\ gemPc = "start"
    /\ gemCandidates = <<>>
    /\ gemIdx = 1
    /\ gemAttempt = 1
    /\ gemLastStatus = 0
    /\ gemAttempted = <<>>
    /\ gemRequests = [m \in GeminiModels |-> 0]
    /\ gemFailures = [m \in GeminiModels |-> 0]
    /\ gemLast = [model |-> "", resp |-> NoResponse]
    /\ gemOutcome = NoOutcome
    /\ mpxPc = "requesting"
    /\ mpxAttempt = 1
    /\ mpxRequests = 0
    /\ mpxLast = NoResponse
    /\ mpxOutcome = "none"

mpxUnchanged == UNCHANGED <<mpxPc, mpxAttempt, mpxRequests, mpxLast, mpxOutcome>>
gemUnchanged ==
    UNCHANGED <<gemIn, gemPc, gemCandidates, gemIdx, gemAttempt, gemLastStatus,
                gemAttempted, gemRequests, gemFailures, gemLast, gemOutcome>>

\* _scan_page_with_gemini up to the loop over the model candidates
GeminiStart ==
    /\ gemPc = "start"
    /\ gemCandidates' = _build_model_candidates(gemIn.model)
    /\ gemPc' = "requesting"
    /\ UNCHANGED <<gemIn, gemIdx, gemAttempt, gemLastStatus, gemAttempted,
                   gemRequests, gemFailures, gemLast, gemOutcome>>
    /\ mpxUnchanged
    /\ UNCHANGED notRetryVars

\* the exhaustion of the last candidate handed back as an empty result
ExhaustedOutcome_EmptyResult(page_no, attempted, model, last_status) ==
    [kind |-> "result", used_model |-> model, page_no |-> page_no,
     attempted_models |-> attempted, attempts |-> 0, last_status |-> last_status]

\* the RuntimeError raised after the last candidate: its message carries
\* the page, the attempted models and str(transient_failure), which names
\* page, model, attempts and last_status
ExhaustedOutcome(page_no, attempted, model, last_status) ==
    [kind |-> "RuntimeError", used_model |-> model, page_no |-> page_no,
     attempted_models |-> attempted, attempts |-> _MAX_GEMINI_RETRIES_PER_MODEL,
     last_status |-> last_status]

\* one client.post of _scan_page_with_gemini_model and what follows from
\* its response, up to the next request, the return or the raise
GeminiRequest(resp) ==
    LET model == gemCandidates[gemIdx]
        last_status == IF resp.kind = "http_error" THEN resp.code ELSE gemLastStatus
    IN
    /\ gemPc = "requesting"
    /\ resp.kind # "error_body"
    /\ gemRequests' = [gemRequests EXCEPT ![model] = @ + 1]
    /\ gemLast' = [model |-> model, resp |-> resp]
    /\ IF resp.kind = "ok"
       THEN /\ gemPc' = "returned"
            /\ gemOutcome' = [NoOutcome EXCEPT !.kind = "result", !.used_model = model,
                                               !.page_no = gemIn.page_no]
            /\ UNCHANGED <<gemIdx, gemAttempt, gemLastStatus, gemAttempted, gemFailures>>
       ELSE IF ~IsTransient(resp)
       THEN /\ gemPc' = "raised"
            /\ gemOutcome' = [NoOutcome EXCEPT
                                !.kind = IF resp.kind = "http_error"
                                         THEN "HTTPStatusError" ELSE "ValueError",
                                !.last_status = resp.code]
            /\ UNCHANGED <<gemIdx, gemAttempt, gemLastStatus, gemAttempted, gemFailures>>
       ELSE /\ gemFailures' = [gemFailures EXCEPT ![model] = @ + 1]
            /\ IF ~BudgetExhausted(gemAttempt, _MAX_GEMINI_RETRIES_PER_MODEL)
               THEN /\ gemAttempt' = gemAttempt + 1
                    /\ gemLastStatus' = last_status
                    /\ UNCHANGED <<gemPc, gemIdx, gemAttempted, gemOutcome>>
               ELSE /\ gemAttempted' = Append(gemAttempted, model)
                    /\ gemAttempt' = 1
                    /\ gemLastStatus' = 0
                    /\ IF gemIdx < Len(gemCandidates)
                       THEN /\ gemIdx' = gemIdx + 1
                            /\ UNCHANGED <<gemPc, gemOutcome>>
                       ELSE /\ gemPc' = "raised"
                            /\ gemOutcome' = ExhaustedOutcome(gemIn.page_no, gemAttempted',
                                                             model, last_status)
                            /\ UNCHANGED gemIdx
    /\ UNCHANGED <<gemIn, gemCandidates>>
    /\ mpxUnchanged
    /\ UNCHANGED notRetryVars

\* one client.post of ocr_mathpix_image and what follows from its response
MathpixRequest(resp) ==
    /\ mpxPc = "requesting"
    /\ mpxRequests' = mpxRequests + 1
    /\ mpxLast' = resp
    /\ IF resp.kind = "ok"
       THEN /\ mpxPc' = "returned"
            /\ mpxOutcome' = "data"
            /\ UNCHANGED mpxAttempt
       ELSE IF ~IsTransient(resp)
       THEN /\ mpxPc' = "raised"
            /\ mpxOutcome' = CASE resp.kind = "http_error" -> "HTTPStatusError"
                               [] resp.kind = "error_body" -> "RuntimeError"
                               [] OTHER -> "ValueError"
            /\ UNCHANGED mpxAttempt
       ELSE IF BudgetExhausted(mpxAttempt, _MAX_MATHPIX_RETRIES)
       THEN /\ mpxPc' = "raised"
            /\ mpxOutcome' = IF resp.kind = "http_error"
                             THEN "HTTPStatusError" ELSE "RequestError"
            /\ UNCHANGED mpxAttempt
       ELSE /\ mpxAttempt' = mpxAttempt + 1
            /\ UNCHANGED <<mpxPc, mpxOutcome>>
    /\ gemUnchanged
    /\ UNCHANGED notRetryVars

GeminiRequestStep == \E resp \in Responses : GeminiRequest(resp)
MathpixRequestStep == \E resp \in Responses : MathpixRequest(resp)

JobSubmitBegin ==
    /\ \E r \in Requests, file_url_ok \in BOOLEAN : SubmitBegin(r, file_url_ok)
    /\ UNCHANGED notJobVars
JobSubmitFinish ==
    /\ \E r \in Requests, outcome \in SubmitOutcomes : SubmitFinish(r, outcome)
    /\ UNCHANGED notJobVars
\* the provider's answers to one sync: the lines endpoint is only asked
\* (and its answer only matters) when the status maps to completed
LinesAnswers(payload, line_payloads) ==
    IF map_mathpix_job_status(payload)[1] = "completed"
    THEN LinesOutcomes \X line_payloads
    ELSE {<<"ok", NoLinesPayload>>}

SyncAny(payloads, line_payloads) ==
    \/ Sync(FALSE, EmptyPayload, "ok", NoLinesPayload)
    \/ \E payload \in payloads :
          \E answer \in LinesAnswers(payload, line_payloads) :
              Sync(TRUE, payload, answer[1], answer[2])

JobSync == SyncAny(JobSyncPayloads, JobLinePayloads) /\ UNCHANGED notJobVars
JobProblemOcrBegin ==
    /\ \E source_ok \in BOOLEAN : ProblemOcrBegin(source_ok)
    /\ UNCHANGED notJobVars
JobProblemOcrFinish ==
    /\ \E outcome \in {"ok", "exception", "exception_unrecorded"} : ProblemOcrFinish(outcome)
    /\ UNCHANGED notJobVars
JobPreprocess ==
    /\ \E scan_ok \in BOOLEAN, scanned_pages \in 0..MaxScannedPages,
          problem_items \in ScannedProblemItems :
          Preprocess(scan_ok, scanned_pages, problem_items)
    /\ UNCHANGED notJobVars

InitMap == MapInit /\ JobIdle /\ ScanIdle /\ RetryIdle /\ MergeIdle /\ SelectIdle /\ ExtractIdle /\ MatIdle /\ RunIdle /\ HintIdle /\ CallIdle /\ StepIdle
NextMap == MapStatus
SpecMap == InitMap /\ [][NextMap]_vars

InitJob == JobInit /\ MapIdle /\ ScanIdle /\ RetryIdle /\ MergeIdle /\ SelectIdle /\ ExtractIdle /\ MatIdle /\ RunIdle /\ HintIdle /\ CallIdle /\ StepIdle
NextJob ==
    \/ JobSubmitBegin
    \/ JobSubmitFinish
    \/ JobSync
    \/ JobProblemOcrBegin
    \/ JobProblemOcrFinish
    \/ JobPreprocess
SpecJob == InitJob /\ [][NextJob]_vars

(***************************************************************************)
(* SpecSync: the sync handler on a submitted job, over the full universe   *)
(* of status and lines payloads; pages may exist from an earlier           *)
(* ai-preprocess or sync.                                                  *)
(***************************************************************************)
SyncInit ==
    /\ job = [provider |-> "mathpix", provider_job_id |-> 1, status |-> "processing",
              progress_pct |-> 500, error_code |-> Null, error_message |-> Null,
              finished_at |-> FALSE]
    /\ ocr_pages \in {NoPages, UpsertScannedPages(NoPages, 1, <<>>)}
    /\ submitReq = [r \in Requests |-> "idle"]
    /\ pocr = "idle"
    /\ lastOp = NoOp
    /\ providerSubmits = 1

SyncStep == SyncAny(SyncPayloads, LinePayloads) /\ UNCHANGED notJobVars

InitSync == SyncInit /\ MapIdle /\ ScanIdle /\ RetryIdle /\ MergeIdle /\ SelectIdle /\ ExtractIdle /\ MatIdle /\ RunIdle /\ HintIdle /\ CallIdle /\ StepIdle
NextSync == SyncStep
SpecSync == InitSync /\ [][NextSync]_vars
InitPreprocess == InitSync
NextPreprocess == JobSync \/ JobPreprocess
SpecPreprocess == InitPreprocess /\ [][NextPreprocess]_vars


InitScan == ScanInit /\ MapIdle /\ JobIdle /\ RetryIdle /\ MergeIdle /\ SelectIdle /\ ExtractIdle /\ MatIdle /\ RunIdle /\ HintIdle /\ CallIdle /\ StepIdle
NextScan ==
    \/ ScanStart
    \/ ScanSequentialStep
    \/ ScanFillStep
    \/ ScanWorkerStep
    \/ ScanWait
    \/ ScanCollect
    \/ ScanSubmitNextStep
    \/ ScanShutdown
SpecScan == InitScan /\ [][NextScan]_vars

InitRetry == RetryInit /\ MapIdle /\ JobIdle /\ ScanIdle /\ MergeIdle /\ SelectIdle /\ ExtractIdle /\ MatIdle /\ RunIdle /\ HintIdle /\ CallIdle /\ StepIdle
NextRetry ==
    \/ GeminiStart
    \/ GeminiRequestStep
    \/ MathpixRequestStep
SpecRetry == InitRetry /\ [][NextRetry]_vars

\* every request returns or times out and every sleep ends, so a call that
\* can take a step takes it
SpecRetryFair == SpecRetry /\ WF_vars(NextRetry)

InitMerge == MergeInit /\ MapIdle /\ JobIdle /\ ScanIdle /\ RetryIdle /\ SelectIdle /\ ExtractIdle /\ MatIdle /\ RunIdle /\ HintIdle /\ CallIdle /\ StepIdle
NextMerge == MergePages
SpecMerge == InitMerge /\ [][NextMerge]_vars

InitSelect ==
    SelectInit /\ MapIdle /\ JobIdle /\ ScanIdle /\ RetryIdle /\ MergeIdle /\ ExtractIdle /\ MatIdle /\ RunIdle /\ HintIdle /\ CallIdle /\ StepIdle
NextSelect == SelectAndUpload
SpecSelect == InitSelect /\ [][NextSelect]_vars

InitExtract ==
    ExtractInit /\ MapIdle /\ JobIdle /\ ScanIdle /\ RetryIdle /\ MergeIdle /\ SelectIdle /\ MatIdle /\ RunIdle /\ HintIdle /\ CallIdle /\ StepIdle
NextExtract ==
    \/ ExtractStart
    \/ ExtractHintStep
SpecExtract == InitExtract /\ [][NextExtract]_vars

InitMaterialize ==
    MatInit /\ MapIdle /\ JobIdle /\ ScanIdle /\ RetryIdle /\ MergeIdle /\ SelectIdle /\ ExtractIdle /\ RunIdle /\ HintIdle /\ CallIdle /\ StepIdle
NextMaterialize ==
    \/ MaterializeCandidateStep
    \/ MaterializeNextPage
SpecMaterialize == InitMaterialize /\ [][NextMaterialize]_vars

InitProblemOcr ==
    RunInit /\ MapIdle /\ JobIdle /\ ScanIdle /\ RetryIdle /\ MergeIdle /\ SelectIdle /\ ExtractIdle /\ MatIdle /\ HintIdle /\ CallIdle /\ StepIdle
NextProblemOcr ==
    \/ RunOpenStep
    \/ RunMarkProcessingStep
    \/ RunCandidateStep
    \/ RunFinishStep
SpecProblemOcr == InitProblemOcr /\ [][NextProblemOcr]_vars

InitHints ==
    HintInit /\ MapIdle /\ JobIdle /\ ScanIdle /\ RetryIdle /\ MergeIdle /\ SelectIdle /\ ExtractIdle /\ MatIdle /\ RunIdle /\ CallIdle /\ StepIdle
NextHints == CollectHints
SpecHints == InitHints /\ [][NextHints]_vars

InitSequence ==
    SequenceInit /\ MapIdle /\ JobIdle /\ ScanIdle /\ RetryIdle /\ MergeIdle /\ SelectIdle /\ ExtractIdle /\ MatIdle /\ RunIdle /\ HintIdle /\ StepIdle
NextSequence == SequenceTest
SpecSequence == InitSequence /\ [][NextSequence]_vars

InitSegment ==
    SegmentInit /\ MapIdle /\ JobIdle /\ ScanIdle /\ RetryIdle /\ MergeIdle /\ SelectIdle /\ ExtractIdle /\ MatIdle /\ RunIdle /\ HintIdle /\ StepIdle
NextSegment == Segment
SpecSegment == InitSegment /\ [][NextSegment]_vars
InitClassify ==
    ClassifyInit /\ MapIdle /\ JobIdle /\ ScanIdle /\ RetryIdle /\ MergeIdle /\ SelectIdle /\ ExtractIdle /\ MatIdle /\ RunIdle /\ HintIdle /\ StepIdle
NextClassify == Classify
SpecClassify == InitClassify /\ [][NextClassify]_vars
InitAttach ==
    AttachInit /\ MapIdle /\ JobIdle /\ ScanIdle /\ RetryIdle /\ MergeIdle /\ SelectIdle /\ ExtractIdle /\ MatIdle /\ RunIdle /\ HintIdle /\ StepIdle
NextAttach == Attach \/ AttachAgain
SpecAttach == InitAttach /\ [][NextAttach]_vars
InitClassifyStep ==
    StepInit /\ MapIdle /\ JobIdle /\ ScanIdle /\ RetryIdle /\ MergeIdle /\ SelectIdle /\ ExtractIdle /\ MatIdle /\ RunIdle /\ HintIdle /\ CallIdle
NextClassifyStep ==
    \/ StepCall
    \/ StepScanPage
    \/ StepFinish
SpecClassifyStep == InitClassifyStep /\ [][NextClassifyStep]_vars
\* The client calls the step endpoint again and a call runs to its end.
SpecClassifyStepFair == SpecClassifyStep /\ WF_vars(NextClassifyStep)




(***************************************************************************)
(* Claims                                                                  *)
(***************************************************************************)

\* C1 (as claimed): once the stored status is completed, failed or cancelled,
\* no later submit, sync or problem-ocr step changes it to another value.
C1_TerminalStatusAbsorbing ==
    [][job.status \in TERMINAL => job'.status = job.status]_vars

\* C2: a successful document scan of total_pages >= 1 pages returns exactly
\* one result per page 1..total_pages, in ascending page order, whatever the
\* pool size and the order in which the page scans complete.
C2_ScanReturnsPagesInOrder ==
    (scanPc = "returned" /\ total_pages >= 1) =>
        /\ Len(scanResult) = total_pages
        /\ \A i \in 1..total_pages : scanResult[i].page_no = i

\* C2 witness: a parallel scan of the whole document returned although a
\* later page was collected before page 1.
C2_Witness ==
    /\ scanPc = "returned"
    /\ total_pages = MaxDocPages
    /\ max_workers >= 2
    /\ Len(scanResult) = total_pages
    /\ page_results[1].page_no # 1

\* C3: the page scans in flight never exceed min(total_pages,
\* max(1, max_parallel_pages)); no page is submitted twice and a successful
\* scan has submitted every page once; once the initial window is filled a
\* page is submitted only after an earlier scan was collected.
InitialWindow == PoolSize(total_pages, scanIn.max_parallel_pages)

C3_WindowBound ==
    /\ Cardinality(future_to_page_no) <= InitialWindow
    /\ \A p \in Pages : submitCount[p] <= 1
    /\ (scanPc = "returned" /\ total_pages >= 1) =>
          \A p \in 1..total_pages : submitCount[p] = 1

C3_SubmitAfterCollect ==
    (next_page_no' = next_page_no + 1 /\ next_page_no > InitialWindow) =>
        /\ Len(page_results) >= next_page_no - InitialWindow
        /\ scanPc \in {"submit_next", "sequential"}

C3_SlidingWindow == []C3_WindowBound /\ [][C3_SubmitAfterCollect]_vars

\* C3 witness: the window is full again after a page beyond the initial
\* window was submitted.
C3_Witness ==
    /\ max_workers >= 2
    /\ next_page_no > max_workers + 1
    /\ Cardinality(future_to_page_no) = max_workers
    /\ Len(page_results) >= 1

\* C8 (as claimed): right after a handler saw the provider report failure,
\* the submit call fail, or the submit response carry no job id, the stored
\* job is failed with a non-null error code and error message.
ProviderFailureObserved ==
    \/ lastOp.event \in {"provider_raised", "missing_job_id"}
    \/ /\ lastOp.event = "synced"
       /\ map_mathpix_job_status(lastOp.payload)[1] = "failed"

C8_ProviderFailureRecorded ==
    ProviderFailureObserved =>
        /\ job.status = "failed"
        /\ job.error_code # Null
        /\ job.error_message # Null

\* C9: a sync fetches the line-level payload only when the status maps to
\* completed, and at most once; when that fetch or its parsing raises, the
\* job's status and progress and the pages are stored exactly as the status
\* payload alone gives them.
SyncFinished == lastOp'.tick # lastOp.tick /\ lastOp'.event = "synced"

C9_LinesFetchIsBestEffort ==
    [][SyncFinished =>
        LET mapped == map_mathpix_job_status(lastOp'.payload)
        IN  /\ lastOp'.linesFetches <= 1
            /\ lastOp'.linesFetches = 1 => mapped[1] = "completed"
            /\ lastOp'.linesOutcome \in {"fetch_raises", "parse_raises"} =>
                 /\ job'.status = mapped[1]
                 /\ job'.progress_pct = mapped[2]
                 /\ ocr_pages' = UpsertSyncPages(ocr_pages,
                                     extract_mathpix_pages(lastOp'.payload), mapped[1])]_vars

\* C9 witness: a completed sync whose lines fetch raised has stored the
\* pages of the status payload.
C9_Witness ==
    /\ lastOp.event = "synced"
    /\ lastOp.linesFetches = 1
    /\ lastOp.linesOutcome = "fetch_raises"
    /\ job.status = "completed"
    /\ 2 \in DOMAIN ocr_pages
    /\ ocr_pages[2].extracted_latex = "X2"

\* C10 (as claimed): a payload whose completion flag is not the boolean true
\* and whose status and state strings are no completion words is never
\* mapped to completed; with no error and no failure or queue word either,
\* it maps to processing.
IsCompletionWord(v) == StripLower(PyStr(v)) \in COMPLETED_WORDS

AmbiguousPayload(payload) ==
    /\ payload.completed # JBool(TRUE)
    /\ ~IsCompletionWord(payload.status)
    /\ ~IsCompletionWord(payload.state)

C10_AmbiguousNeverCompleted ==
    (mapPc = "mapped" /\ AmbiguousPayload(mapPayload)) =>
        /\ mapResult[1] # "completed"
        /\ (/\ ~Truthy(mapPayload.error) /\ mapPayload.error.t # "dict"
            /\ RawStatus(mapPayload) \notin FAILED_WORDS \cup QUEUE_WORDS)
           => mapResult[1] = "processing"

\* ---- C4 ----------------------------------------------------------------
\* C4: a page scan sends at most 4 requests to any one model and a
\* single-image OCR call at most 3; a request after the first is sent only
\* when the previous one failed with HTTP 429/500/502/503/504 or a
\* connection error, and a non-transient HTTP error is raised at once.
FailedTransiently(resp) ==
    \/ resp.kind = "request_error"
    \/ resp.kind = "http_error" /\ resp.code \in {429, 500, 502, 503, 504}

NonTransientHttpError(resp) ==
    resp.kind = "http_error" /\ resp.code \notin {429, 500, 502, 503, 504}

C4_RequestBudget ==
    /\ \A m \in GeminiModels : gemRequests[m] <= 4
    /\ mpxRequests <= 3

C4_RetryOnlyAfterTransient ==
    /\ (\E m \in GeminiModels : gemRequests'[m] > gemRequests[m]) /\ gemLast.resp.kind # "none"
           => FailedTransiently(gemLast.resp)
    /\ mpxRequests' > mpxRequests /\ mpxRequests > 0
           => FailedTransiently(mpxLast)

C4_NonTransientRaisedAtOnce ==
    /\ NonTransientHttpError(gemLast.resp)
           => gemPc = "raised" /\ gemOutcome.kind = "HTTPStatusError"
    /\ NonTransientHttpError(mpxLast)
           => mpxPc = "raised" /\ mpxOutcome = "HTTPStatusError"

C4_BoundedRetry ==
    /\ []C4_RequestBudget
    /\ [][C4_RetryOnlyAfterTransient]_vars
    /\ []C4_NonTransientRaisedAtOnce

\* both calls used their whole budget: the page scan answered on the 4th
\* request to a model, the image OCR raised after its 3rd transient failure
C4_Witness ==
    /\ gemPc = "returned"
    /\ gemRequests[gemLast.model] = 4
    /\ mpxRequests = 3
    /\ mpxPc = "raised"
    /\ FailedTransiently(mpxLast)

\* ---- C5 ----------------------------------------------------------------
\* C5: in a page scan with a primary model other than gemini-2.5-flash,
\* the secondary model gemini-2.5-flash is contacted only after the primary
\* failed transiently on all 4 attempts; a success on the primary is
\* attributed to the primary and the secondary is never contacted; a
\* success on the secondary is attributed to the secondary.
PrimaryModel == StripModel(gemIn.model)
HasDistinctPrimary == PrimaryModel \notin {"", "gemini-2.5-flash"}

C5_FallbackAfterExhaustion ==
    HasDistinctPrimary =>
        /\ gemRequests["gemini-2.5-flash"] > 0
               => gemRequests[PrimaryModel] = 4 /\ gemFailures[PrimaryModel] = 4
        /\ gemPc = "returned" /\ gemLast.model = PrimaryModel
               => /\ gemOutcome.kind = "result"
                  /\ gemOutcome.used_model = PrimaryModel
                  /\ gemRequests["gemini-2.5-flash"] = 0
        /\ gemPc = "returned" /\ gemLast.model = "gemini-2.5-flash"
               => /\ gemOutcome.kind = "result"
                  /\ gemOutcome.used_model = "gemini-2.5-flash"

\* the secondary answered after the primary's four transient failures
C5_Witness ==
    /\ HasDistinctPrimary
    /\ gemPc = "returned"
    /\ gemFailures[PrimaryModel] = 4
    /\ gemLast.model = "gemini-2.5-flash"
    /\ gemOutcome.used_model = "gemini-2.5-flash"

\* ---- C6 ----------------------------------------------------------------
\* C6: a page scan always terminates; when every attempt on every model
\* tried fails transiently it stops after at most 2 x 4 requests and raises
\* an error naming the page, the models attempted and the attempt count,
\* and returns no result.
GemTotalRequests == gemRequests["gemini-2.5-pro"] + gemRequests["gemini-2.5-flash"]

PageScanDone == gemPc \in {"returned", "raised"}

AllAttemptsFailedTransiently ==
    /\ gemPc # "start"
    /\ \A i \in 1..Len(gemCandidates) : gemFailures[gemCandidates[i]] = 4

C6_ExhaustionRaises ==
    /\ GemTotalRequests <= 2 * 4
    /\ AllAttemptsFailedTransiently
           => /\ gemPc = "raised"
              /\ gemOutcome.kind = "RuntimeError"
              /\ gemOutcome.page_no = gemIn.page_no
              /\ gemOutcome.attempted_models = gemCandidates
              /\ gemOutcome.attempts = 4

C6_PageScanTerminates == <>PageScanDone /\ []C6_ExhaustionRaises

\* eight transient failures over both models, then the raise
C6_Witness ==
    /\ AllAttemptsFailedTransiently
    /\ Len(gemCandidates) = 2
    /\ GemTotalRequests = 8
    /\ gemPc = "raised"

\* ---- C11 ---------------------------------------------------------------
\* C11: map_mathpix_job_status decides from the explicit flags before the
\* status string: a truthy completion flag gives (completed, 100, no
\* error); otherwise a present error field gives failed with that error
\* message whatever the status/state string says.
C11_FlagsBeforeStatusString ==
    mapPc = "mapped" =>
        /\ Truthy(mapPayload.completed) => mapResult = <<"completed", 10000, NoError>>
        /\ ~Truthy(mapPayload.completed) /\ Truthy(mapPayload.error)
               => mapResult[1] = "failed" /\ mapResult[3] = ErrorMessage(mapPayload)

\* ---- C12 ---------------------------------------------------------------
\* C12: for a page number present in both lists, merge_mathpix_pages yields
\* the line page's extracted_text when it is non-empty and the status
\* page's extracted_text only when the line page's is empty or missing.
IndexesOf(pages, n) == {i \in 1..Len(pages) : pages[i].page_no = n}
TheStatusPage(n) == mergeStatusPages[CHOOSE i \in IndexesOf(mergeStatusPages, n) : TRUE]
TheLinePage(n) == mergeLinePages[CHOOSE i \in IndexesOf(mergeLinePages, n) : TRUE]
InBothOnce(n) ==
    /\ Cardinality(IndexesOf(mergeStatusPages, n)) = 1
    /\ Cardinality(IndexesOf(mergeLinePages, n)) = 1
MergedPage(n) == mergeResult[CHOOSE i \in 1..Len(mergeResult) : mergeResult[i].page_no = n]
NonEmpty(text) == text # Null /\ text # ""

C12_MergedTextPrefersLines ==
    mergePc = "merged" =>
        \A n \in MergePageNos :
            InBothOnce(n) =>
                /\ \E i \in 1..Len(mergeResult) : mergeResult[i].page_no = n
                /\ MergedPage(n).extracted_text =
                       IF NonEmpty(TheLinePage(n).extracted_text)
                       THEN TheLinePage(n).extracted_text
                       ELSE TheStatusPage(n).extracted_text

\* both sources carry a text for the page and the line text is kept; in
\* another run the line text is empty and the status text is kept
C12_Witness ==
    /\ mergePc = "merged"
    /\ \E n \in MergePageNos :
          /\ InBothOnce(n)
          /\ NonEmpty(TheStatusPage(n).extracted_text)
          /\ TheLinePage(n).extracted_text = "L"
          /\ MergedPage(n).extracted_text = "L"

\* ---- C13 ---------------------------------------------------------------
\* C13: for a page number present in both lists, merge_mathpix_pages yields
\* the line page's extracted_latex when it is non-empty and the status
\* page's extracted_latex only when the line page's is empty or missing.
C13_MergedLatexPrefersLines ==
    mergePc = "merged" =>
        \A n \in MergePageNos :
            InBothOnce(n) =>
                MergedPage(n).extracted_latex =
                    IF NonEmpty(TheLinePage(n).extracted_latex)
                    THEN TheLinePage(n).extracted_latex
                    ELSE TheStatusPage(n).extracted_latex

\* ---- C14 ---------------------------------------------------------------
\* C14: when both sources describe a page and both raw payloads are
\* objects, the merged raw payload keeps the line payload's value for every
\* key the line payload has, adds each key only the status payload has with
\* the status value, and stores the status payload under
\* _mathpix_status_page.
BothRawObjects(n) ==
    /\ InBothOnce(n)
    /\ IsDictItem(TheStatusPage(n).raw_payload)
    /\ IsDictItem(TheLinePage(n).raw_payload)

RawMergeKeeps(n, keys) ==
    LET line_raw == TheLinePage(n).raw_payload
        status_raw == TheStatusPage(n).raw_payload
        merged_raw == MergedPage(n).raw_payload
    IN  /\ DOMAIN merged_raw = DOMAIN line_raw \cup DOMAIN status_raw \cup {"_mathpix_status_page"}
        /\ \A k \in DOMAIN line_raw \cap keys : merged_raw[k] = line_raw[k]
        /\ \A k \in (DOMAIN status_raw \ DOMAIN line_raw) \cap keys :
               merged_raw[k] = status_raw[k]
        /\ merged_raw["_mathpix_status_page"] = status_raw

RawKeys == {"page", "image_id", "confidence", "lines", "_mathpix_status_page"}

C14_RawMergeKeepsEveryLineKey ==
    mergePc = "merged" =>
        \A n \in MergePageNos : BothRawObjects(n) => RawMergeKeeps(n, RawKeys)

\* C14 as amended: the same for every key other than _mathpix_status_page,
\* which always holds the status payload after the merge.
C14_RawMergeKeepsLineKeys ==
    mergePc = "merged" =>
        \A n \in MergePageNos :
            BothRawObjects(n) => RawMergeKeeps(n, RawKeys \ {"_mathpix_status_page"})

\* a key both payloads have keeps the line value; a status-only key is added
C14_Witness ==
    /\ mergePc = "merged"
    /\ \E n \in MergePageNos :
          /\ BothRawObjects(n)
          /\ MergedPage(n).raw_payload["image_id"] = JStr("l1")
          /\ "confidence" \in DOMAIN MergedPage(n).raw_payload
          /\ "confidence" \notin DOMAIN TheLinePage(n).raw_payload

\* ---- C15 ---------------------------------------------------------------
\* C15: for two distinct candidates of one job (different page_no or
\* different candidate_index), also when they carry the same candidate_no,
\* the keys of their stored problems and of their uploaded asset crops are
\* disjoint: no key is written by two candidates.
SingleOwner(writes) ==
    \A a \in writes, b \in writes : a.key = b.key => a.owner = b.owner

C15_StorageKeysDisjoint ==
    /\ SingleOwner(matProblems)
    /\ SingleOwner(matUploads)


\* ---- C16 ---------------------------------------------------------------
\* C16: for any list of asset hints, hint selection returns at most 6 hints
\* and at most 2 of any one asset type, so one extract_and_upload call
\* uploads at most 6 objects and at most 2 per asset type; within a type
\* the selected hints are the highest ranked by (has bbox, source
\* priority, area).
OutrankedBy(hints, hint) ==
    {i \in 1..Len(hints) :
        /\ hints[i].asset_type = hint.asset_type
        /\ KeyGreater(_hint_rank_key(hints[i]), _hint_rank_key(hint))}

C16_SelectionCaps ==
    selPc = "selected" =>
        /\ Len(selSelected) <= 6
        /\ \A t \in {"image", "table", "graph", "other"} : CountOfType(selSelected, t) <= 2
        /\ Cardinality({selUploads[i].storage_key : i \in 1..Len(selUploads)}) <= 6
        /\ Len(selUploads) <= 6
        /\ \A t \in {"image", "table", "graph", "other"} : CountOfType(selUploads, t) <= 2
        /\ \A i \in 1..Len(selSelected) :
               Cardinality(OutrankedBy(NormalizedHints(selHints), selSelected[i]))
                   = Cardinality(OutrankedBy(selSelected, selSelected[i]))

\* seven hints of four types, three of them graphs: six are selected and
\* the lowest-ranked graph is left out
C16_Witness ==
    /\ selPc = "selected"
    /\ Len(selHints) >= 7
    /\ Len(selSelected) = 6
    /\ CountOfType(NormalizedHints(selHints), "graph") >= 3
    /\ CountOfType(selSelected, "graph") = 2
    /\ \E i \in 1..Len(selHints) : \A j \in 1..Len(selSelected) :
           NormalizedHints(selHints)[i].evidence # selSelected[j].evidence

\* ---- C17 ---------------------------------------------------------------
\* C17: in extract_and_upload a selected hint whose render fails (no clip
\* rectangle, a zero-byte image, or an error raised while rendering) is
\* skipped, and every other selected hint is still rendered and uploaded.
ExtractEnded == exPc \in {"returned", "raised"}

C17_RenderFailureIsolated ==
    ExtractEnded =>
        \A idx \in 1..Len(exSelected) :
            /\ exRender[idx] # "none"
            /\ exRender[idx] = "ok"
                   => ObjectKey(exIn.page_no, exIn.candidate_no, idx,
                                NormalizeAssetType(exSelected[idx].asset_type)) \in s3Objects

\* ---- C18 ---------------------------------------------------------------
\* C18: in a problem-level OCR run the failure of one candidate's render,
\* OCR call or classification is recorded as a skipped result with a
\* reason, the remaining candidates of the page and of later pages are
\* still processed, and the run does not end failed because of it.
RunEnded == runPc \in {"returned", "raised"}

CandidateFailures == {"render", "ocr", "classification"}

C18_CandidateFailureIsSkipped ==
    RunEnded =>
        /\ runError \notin CandidateFailures
        /\ \A i \in 1..Len(runResults) :
               runResults[i].status = "skipped" => runResults[i].reason # ""
        /\ runPc = "returned" =>
               \A page_no \in 1..RunPages, index \in 1..RunCandidates :
                   \E i \in 1..Len(runResults) :
                       runResults[i].page_no = page_no /\ runResults[i].index = index

\* ---- C19 ---------------------------------------------------------------
\* C19: a run that opened the PDF document has closed it when it ends,
\* whether it returns or an error is raised at any step after the open.
C19_DocumentClosedAtEnd ==
    RunEnded => ~runDocOpen

\* ---- C20 ---------------------------------------------------------------
\* C20: when a candidate bbox is supplied to collect_problem_asset_hints,
\* in an absolute or a unit-ratio encoding, every node hint of the output
\* overlaps the candidate's rectangle by at least 15% of the hint's own
\* area.
\* the candidate's rectangle on the page, in page units
CandidateOnPage(bbox) ==
    IF bbox.enc = "x0_ratio,y0_ratio,x1_ratio,y1_ratio"
    THEN <<bbox.a, bbox.b, bbox.c, bbox.d>>
    ELSE _to_bbox_xyxy(bbox)

C20_NodeHintsOverlapCandidate ==
    (hintPc = "collected" /\ hintIn.candidate_bbox.enc # "none") =>
        \A i \in 1..Len(hintOut) :
            hintOut[i].source = "raw_payload_node" =>
                /\ hintOut[i].bbox.enc # "none"
                /\ _bbox_intersection_area(CandidateOnPage(hintIn.candidate_bbox),
                                           _to_bbox_xyxy(hintOut[i].bbox)) * 100
                       >= 15 * _bbox_area(_to_bbox_xyxy(hintOut[i].bbox))

\* ---- C21 ---------------------------------------------------------------
\* C21: the sequence test accepts a list of at least 2 captured numbers
\* exactly when its consecutive steps are increases of 1 to 3 with at most
\* 2 exceptions; [1,2,3,5,6] is accepted and [1,9,2,14] is rejected.
StepExceptions(numbers) == (Len(numbers) - 1) - IncreasingSteps(numbers)

C21_SequenceToleratesTwoExceptions ==
    callPc = "sequence_tested" =>
        /\ Len(callIn) >= 2 => (callOut <=> StepExceptions(callIn) <= 2)
        /\ callIn = <<1, 2, 3, 5, 6>> => callOut
        /\ callIn = <<1, 9, 2, 14>> => ~callOut

\* ---- C22 ---------------------------------------------------------------
\* C22: when no layout candidates exist and none of the four numbering
\* patterns matches the page text, extract_problem_candidates returns
\* exactly one candidate, with candidate_no 1, split_strategy
\* full_page_fallback and the page text.
\* the text the regex path works on
PageText ==
    IF callIn.page_raw_payload.is_dict /\ callIn.page_raw_payload.non_visual_text # <<>>
    THEN callIn.page_raw_payload.non_visual_text
    ELSE callIn.text

NothingToSplit ==
    /\ callPc = "segmented"
    /\ callIn.page_raw_payload.roots = <<>>
    /\ \A i \in 1..Len(PageText) : PageText[i].pattern \in {"plain", "blank"}

\* as stated: one candidate whatever the text
C22_FallbackAlwaysOneCandidate ==
    NothingToSplit =>
        /\ Len(callOut) = 1
        /\ callOut[1] = Candidate(1, StripLines(PageText), "full_page_fallback")

\* amended: one candidate when the text is not blank, none when it is
C22_FallbackOneCandidateUnlessBlank ==
    NothingToSplit =>
        IF StripLines(PageText) = <<>>
        THEN callOut = <<>>
        ELSE callOut = <<Candidate(1, StripLines(PageText), "full_page_fallback")>>

C22_Witness ==
    /\ NothingToSplit
    /\ Len(PageText) >= 2
    /\ Head(PageText) = BlankLine
    /\ callOut = <<Candidate(1, StripLines(PageText), "full_page_fallback")>>

\* ---- C23 ---------------------------------------------------------------
\* C23: every bbox carried by an emitted candidate or asset hint satisfies
\* x2 > x1 and y2 > y1; a node whose bbox is degenerate or inverted yields
\* no bbox-bearing hint.
C23_EmittedBBoxesProper ==
    hintPc = "collected" =>
        \A i \in 1..Len(hintOut) :
            hintOut[i].bbox.enc = "x1,y1,x2,y2" =>
                /\ hintOut[i].bbox.c > hintOut[i].bbox.a
                /\ hintOut[i].bbox.d > hintOut[i].bbox.b

\* ---- C24 ---------------------------------------------------------------
\* C24: the candidates extract_problem_candidates returns for one page
\* carry pairwise distinct positive candidate numbers, whichever path
\* produced them.
C24_CandidateNumbersDistinctPositive ==
    callPc = "segmented" =>
        /\ \A i \in 1..Len(callOut) : callOut[i].candidate_no > 0
        /\ \A i \in 1..Len(callOut), j \in 1..Len(callOut) :
               callOut[i].candidate_no = callOut[j].candidate_no => i = j

\* ---- C25 ---------------------------------------------------------------
WellFormedClassification(r) ==
    /\ ~r.raised
    /\ r.subject_code \in ALLOWED_SUBJECT_CODES \cup {Null}
    /\ \/ r.source_category = Null /\ r.source_type = Null
       \/ r.source_category \in ALLOWED_SOURCE_CATEGORIES /\ r.source_type \in ALLOWED_SOURCE_TYPES
    /\ r.validation_status \in ALLOWED_VALIDATION_STATUSES
    /\ r.confidence.kind = "num" /\ r.confidence.v \in 0..100
    /\ r.point_value = NoNumber \/ (r.point_value.kind = "num" /\ r.point_value.v \in {2, 3, 4})

\* The output of the external call is wrongly shaped: a JSON object whose
\* values are outside the schema the prompt asks for.
WronglyShaped(result) ==
    \/ result.subject_code \notin ALLOWED_SUBJECT_CODES \cup {Null}
    \/ result.point_value \notin {Num(2), Num(3), Num(4), NoNumber}
    \/ result.source_category \notin ALLOWED_SOURCE_CATEGORIES \cup {Null}
    \/ result.source_type \notin ALLOWED_SOURCE_TYPES \cup {Null}
    \/ result.validation_status \notin ALLOWED_VALIDATION_STATUSES
    \/ result.confidence.kind # "num"
    \/ result.confidence.v \notin 0..100

ExternalCallFails(in) ==
    in.api_key /\ (ApiRaises(in.api) \/ WronglyShaped(in.api.result))

\* C25: classify_candidate never raises; when the external call fails
\* (network error, non-JSON output, wrongly shaped output) the result is
\* the heuristic classification with provider heuristic; on both paths
\* the result is inside the whitelists, confidence in 0..100 and
\* point_value in {2,3,4} or null.
C25_FailedCallGivesHeuristic ==
    callPc = "classified" =>
        /\ WellFormedClassification(callOut)
        /\ ExternalCallFails(callIn) =>
               callOut = _normalize_result(
                   _heuristic_classification(callIn.statement_text), "heuristic")

\* ---- C26 ---------------------------------------------------------------
\* The answer candidates of all pages, in page order.
RECURSIVE AllAnswerCandidates(_, _)
AllAnswerCandidates(scanned_pages, p) ==
    IF p > Len(scanned_pages) THEN <<>>
    ELSE scanned_pages[p].answer_candidates \o AllAnswerCandidates(scanned_pages, p + 1)

AnswersFor(scanned_pages, question_no) ==
    SelectSeq(AllAnswerCandidates(scanned_pages, 1),
              LAMBDA a : /\ _to_positive_int(a.question_no) = question_no
                         /\ _normalize_answer_key(a.answer_key) # NoKey)

NeedsAnswer(problem) ==
    _to_positive_int(problem.question_no) # NoNumber /\ ~HasKey(problem.answer_key)

Updated(before, after) ==
    {<<p, i>> \in {<<p, i>> : p \in DOMAIN before, i \in 1..MaxItems + 1} :
        /\ i \in DOMAIN before[p].problems
        /\ after[p].problems[i] # before[p].problems[i]}

\* C26: a problem with a question number and no answer key gets the first
\* answer key found for its question number across all pages and
\* answer_source = answer_page; every other problem is unchanged; the
\* return value is the number of updated problems; a second call on the
\* same pages updates nothing and returns 0.
C26_AttachFirstAnswerKeyOnce ==
    /\ callPc = "attached" =>
          /\ \A p \in DOMAIN callIn : \A i \in DOMAIN callIn[p].problems :
                LET problem == callIn[p].problems[i]
                    answers == AnswersFor(callIn, _to_positive_int(problem.question_no))
                IN callOut.pages[p].problems[i] =
                       IF NeedsAnswer(problem) /\ answers # <<>>
                       THEN [problem EXCEPT
                                !.answer_key = _normalize_answer_key(answers[1].answer_key),
                                !.answer_source = "answer_page"]
                       ELSE problem
          /\ \A p \in DOMAIN callIn :
                callOut.pages[p].answer_candidates = callIn[p].answer_candidates
          /\ callOut.matched = Cardinality(Updated(callIn, callOut.pages))
    /\ callPc = "attached_again" =>
          callOut.matched = 0 /\ callOut.pages = callIn

C26_Witness ==
    /\ callPc = "attached_again"
    /\ \E p \in DOMAIN callIn : \E i \in DOMAIN callIn[p].problems :
          /\ callIn[p].problems[i].answer_source = "answer_page"
          /\ Len(AnswersFor(callIn, callIn[p].problems[i].question_no)) >= 2
          /\ AnswersFor(callIn, callIn[p].problems[i].question_no)[1].answer_key
                 # AnswersFor(callIn, callIn[p].problems[i].question_no)[2].answer_key

\* ---- C27 ---------------------------------------------------------------
\* C27: an AI pre-process run never writes statement text read by the AI
\* into extracted_text: a page the run creates has a null extracted_text
\* and the extracted_text of every page that exists is unchanged, whatever
\* problems the scan detected.
C27_PreprocessKeepsExtractedText ==
    [][JobPreprocess =>
          \A n \in DOMAIN ocr_pages' :
              ocr_pages'[n].extracted_text =
                  IF n \in DOMAIN ocr_pages THEN ocr_pages[n].extracted_text ELSE Null]_vars

C27_Witness ==
    /\ lastOp.op = "ai_preprocess" /\ lastOp.event = "preprocessed"
    /\ \E n \in DOMAIN ocr_pages :
          /\ "ai_preprocess" \in DOMAIN ocr_pages[n].raw_payload
          /\ ocr_pages[n].extracted_text # Null

\* ---- C28 ---------------------------------------------------------------
\* The stored list of the page holds a classification of this candidate:
\* an entry with its number and its statement.
HasClassification(page, candidate) ==
    \E i \in DOMAIN page.stored :
        /\ page.stored[i].candidate_no = candidate.candidate_no
        /\ page.stored[i].statement_text = candidate.statement_text

AllClassified(pages) ==
    \A p \in DOMAIN pages : \A k \in DOMAIN PageCandidates(pages[p]) :
        HasClassification(pages[p], PageCandidates(pages[p])[k])

\* No candidate is left that a further call would classify.
NothingOutstanding(pages) ==
    \A p \in DOMAIN pages :
        TargetsOfPage(PageCandidates(pages[p]), 1,
                      ExistingCandidateNo(pages[p].stored), 1) = <<>>

\* A call returns.
StepReturns == stepPc = "pages" /\ stepPc' = "idle"

\* C28: when a step reports done = true, every candidate the segmentation
\* yields has a classification stored on its page, also when two
\* candidates of a page share a candidate_no; and the step that classifies
\* the last outstanding candidate is the one that reports done = true.
C28_DoneMeansAllClassified ==
    /\ [](stepLast.called /\ stepLast.done => AllClassified(stepPages))
    /\ [][(/\ StepReturns
           /\ stepLast'.processed_in_call > 0
           /\ NothingOutstanding(stepPages')) => stepLast'.done]_vars

\* ---- C29 ---------------------------------------------------------------
\* C29: on unchanged pages repeated calls eventually return done = true;
\* a call classifies at most max_candidates_per_call candidates, none of
\* them with a candidate_no already stored for its page, and a call that
\* returns done = false has stored at least one new classification.
C29_StepsReachDone ==
    /\ <>(stepLast.called /\ stepLast.done)
    /\ [][StepReturns =>
            /\ stepLast'.processed_in_call <= stepMax
            /\ StoredCount(stepPages') - StoredCount(stepPages) <= stepMax
            /\ stepLast'.processed_in_call > 0 =>
                  \A k \in DOMAIN stepTargets :
                      stepTargets[k].candidate.candidate_no
                          \notin ExistingCandidateNo(stepPages[stepTargets[k].page_key].stored)
            /\ \A p \in DOMAIN stepPages : \A i \in DOMAIN stepPages[p].stored :
                  \E j \in DOMAIN stepPages'[p].stored :
                      stepPages'[p].stored[j] = stepPages[p].stored[i]
            /\ ~stepLast'.done => StoredCount(stepPages') > StoredCount(stepPages)]_vars

C29_Witness ==
    /\ stepLast.called /\ stepLast.done
    /\ stepUnfinished >= 2
    /\ stepLast.candidates_processed > stepMax

\* ---- C30 ---------------------------------------------------------------
\* A submit handler answered 409 because the row had a provider_job_id.
SubmitRejected == lastOp'.tick # lastOp.tick /\ lastOp'.event = "provider_job_id_exists"

\* C30: under every interleaving of submit requests on one job, a stored
\* provider_job_id is never replaced and no second submit succeeds (each
\* successful submit writes the id the provider gave to that call); a
\* submit that finds a provider_job_id is rejected without a provider call.
C30_ProviderJobIdWrittenOnce ==
    /\ [][job.provider_job_id # 0 => job'.provider_job_id = job.provider_job_id]_vars
    /\ [][SubmitRejected =>
            /\ providerSubmits' = providerSubmits
            /\ submitReq' = submitReq
            /\ job' = job]_vars

====
